---- MODULE Spec2Model ----
(***************************************************************************)
(* Model of the Rhino export script (src/export.py) and of the layout      *)
(* assembler (src/assemble_layouts.py).                                    *)
(*                                                                         *)
(*   SpecWait      _wait_for_file, poll by poll                            *)
(*   Spec          export_deck called directly; the import and PDF chains  *)
(*                 and the end of assemble_from_dwgs                       *)
(*   SpecMain      main() of export.py from the overwrite selection on     *)
(*   SpecBatch     main() over several clipping planes, with fewer host    *)
(*                 behaviours inside export_deck                           *)
(*   SpecMaster    _find_master_layout                                     *)
(*   SpecAssemble  the loop of assemble_from_dwgs over the layouts         *)
(*   SpecLogging   _setup_logging of both scripts over one session         *)
(*                                                                         *)
(* File states and poll readings are integers:                             *)
(*   -2  probing the path raises (os.path.getsize fails)                   *)
(*   -1  the path does not exist                                           *)
(*    0  the file exists and is empty                                      *)
(*   >0  the file exists with that size                                    *)
(***************************************************************************)
EXTENDS Integers, Sequences, FiniteSets, TLC

\* ---------------------------------------------------------------- bounds
\* Largest file size a poll of _wait_for_file reads in SpecWait.
MaxSize == 2
\* Largest size of an export file in Spec.
MaxFileSize == 1
\* Most polls one _wait_for_file call makes in SpecWait.
MaxPolls == 5
\* Largest timeout_seconds (in clock ticks) a _wait_for_file call is given.
MaxTimeout == 3

\* ------------------------------------------------------ program constants
\* "if stable_count >= 2" in _wait_for_file.
StableNeeded == 2
\* "last_size = -1" in _wait_for_file.
NoSize == -1

Readings == {-2, -1, 0} \cup (1 .. MaxSize)

\* Most export_deck calls one run of the model makes.
MaxCalls == 2
\* Most objects one ClippingDrawings command adds to the document.
MaxObjs == 1
\* Most host faults (a guarded host call failing) in one run of the model.
MaxFaults == 1
\* Most clipping planes main() finds with the prefix.
MaxPlanes == 2
\* Most executions of one script's module code in one interpreter session.
MaxExecs == 2
\* Most further calls of _setup_logging in one interpreter session.
MaxSetups == 3
\* Polls that fit into the 30 s timeout of one export strategy's wait.
WaitPolls == 3

\* ----------------------------------------------------------------- names
\* A name is a sequence of characters, so that str.startswith is computed.
Str_DRAWING == <<"D", "R", "A", "W", "I", "N", "G", "_">>
Sep == <<":", ":">>
NoName == <<>>
StartsWith(s, p) == Len(s) >= Len(p) /\ SubSeq(s, 1, Len(p)) = p

\* The names clipping planes (sections) may bear; one export file per name.
SectionNames == {<<"A">>, <<"B">>}
\* Clipping plane (section) names of the document.
Sections == {<<"A">>}
Names(l) == {l[i] : i \in 1 .. Len(l)}
\* The layer holding the 3D model.
ModelLayer == <<"M">>
\* Layer names the ClippingDrawings command may create.
TempPool == {<<"T">>, <<"T", ":", ":", "S">>}
DrawingLayerOf(sec) == Str_DRAWING \o sec
\* Layers of the user: one whose name only shares the prefix of DRAWING_A,
\* and a sublayer of DRAWING_A.
PrefixLayer == DrawingLayerOf(<<"A", "B">>)
ChildLayer == DrawingLayerOf(<<"A">>) \o Sep \o <<"X">>
AllLayers == {ModelLayer, PrefixLayer, ChildLayer} \cup TempPool
                \cup {DrawingLayerOf(s) : s \in SectionNames}

\* Object ids: 0 is model geometry, 1 a user object, the rest are fresh ids.
ModelObj == 0
UserObj == 1
FreshObjs == 2 .. (1 + MaxObjs)
ObjIds == {ModelObj, UserObj} \cup FreshObjs

FileStates == {-2, -1, 0} \cup (1 .. MaxFileSize)

\* Layout page names. str.lower and str.strip are computed on the characters.
UpperChars == <<"M", "A", "S", "T", "E", "R", "B">>
LowerChars == <<"m", "a", "s", "t", "e", "r", "b">>
Lower(c) ==
    IF \E i \in 1 .. Len(UpperChars) : UpperChars[i] = c
    THEN LowerChars[CHOOSE i \in 1 .. Len(UpperChars) : UpperChars[i] = c]
    ELSE c
LowerStr(s) == [i \in 1 .. Len(s) |-> Lower(s[i])]
IsSpace(c) == c \in {" ", "\t"}
RECURSIVE LStrip(_)
LStrip(s) == IF s # <<>> /\ IsSpace(Head(s)) THEN LStrip(Tail(s)) ELSE s
RECURSIVE RStrip(_)
RStrip(s) == IF s # <<>> /\ IsSpace(s[Len(s)]) THEN RStrip(SubSeq(s, 1, Len(s) - 1)) ELSE s
Strip(s) == RStrip(LStrip(s))
Str_master == <<"m", "a", "s", "t", "e", "r">>

\* The page names of the documents _find_master_layout is tried on.
LayoutNames ==
    { <<"A">>, <<"B">>,
      <<"M", "A", "S", "T", "E", "R">>,
      <<" ", "M", "a", "s", "t", "e", "r", "\t">>,
      <<"m", "a", "s", "t", "e", "r", "s">> }

\* The DWG base names assemble_from_dwgs is given, the name of a layout
\* meant as the master, and the name the host may give to a duplicate.
BaseNames == {<<"A">>, <<"B">>}
MasterLayoutName == <<"M", "A", "S", "T", "E", "R">>
CopyName == <<"C">>

\* Most layouts the document holds.
MaxPages == 3
\* Most detail viewports the document holds.
MaxDetails == 3
\* Most assemble_from_dwgs runs on one document.
MaxRuns == 2
\* Most failing host calls in the assemble_from_dwgs runs on one document.
MaxLayoutFaults == 1
DetailIds == 1 .. MaxDetails

VARIABLES
    \* ---- _setup_logging of both scripts (SpecLogging)
    handlers,       \* module -> logger.handlers of its logger, kept by the logging
                    \* module for the whole interpreter session
    configured,     \* module -> _setup_logging._configured of the function object
                    \* the module's code defined last
    execs,          \* module -> how often its code was executed in this session
    setups,         \* further calls of _setup_logging so far
    \* ---- _wait_for_file (SpecWait)
    wpc,            \* "loop" | "done"
    timeout_seconds,
    elapsed,        \* time.time() - start, in ticks
    last_size,
    stable_count,
    wret,           \* "none" | "true" | "false": the value returned
    polls,          \* history: the reading of every poll so far
    \* ---- main() of export.py
    mpc,            \* "none" (main is not running) | "start" | "plan" | "loop" | "done"
    overwrite_existing_secs, \* the sections the user selected for overwrite
    to_export,      \* the sections still to export, in order
    sections,       \* what _all_section_names_with_prefix returned: one name per plane
    planned,        \* history: to_export as it was determined
    started,        \* history: the sections export_deck was invoked for by main, in order
    sel0,           \* section -> state of its file when "existing" was computed
    touched,        \* sections whose file another actor changed since then
    \* ---- the document and the file system
    script,         \* what this session runs: "wait" | "export" | "assemble" | "main"
                    \* | "batch" | "master" | "layouts" | "logging"
    layers,         \* rs.LayerNames()
    objLayer,       \* object id -> its layer, NoName when the id is not in use
    locked,         \* locked layers
    selected,       \* selected object ids
    files,          \* section -> state of <section>-Export.dwg
    pdf,            \* state of the combined PDF (out_pdf_path)
    \* ---- assemble_layouts.py: _import_dwg_capture_new_objects
    before,         \* set(rs.AllObjects()) when the import started
    new_ids,        \* the list returned
    \* ---- assemble_layouts.py: the end of assemble_from_dwgs
    result,         \* the keys of the dict returned, {} while there is none
    \* ---- assemble_layouts.py: the layouts of the document and one run of
    \* assemble_from_dwgs over them (SpecMaster, SpecAssemble)
    lpc,            \* "none" | "start" | "found" | "page" | "detail" | "import" | "done" | "raised"
    pageNames,      \* the PageName of every layout, in the order of GetPageViews()
    detailPage,     \* detail id -> number of the page it is on, 0: no such detail
    detailLocked,   \* the details that are locked
    explicit_name,  \* master_layout_name, NoName for None
    master,         \* what _find_master_layout returned, NoName for None
    todo,           \* the DWG base names still to assemble, in order
    created_layouts,
    page_view,      \* number of the page being prepared, 0: none
    detail_id,      \* what _add_or_replace_single_detail returned, 0 for None
    prior,          \* history: the details on the page when that call started
    seen,           \* history: what _get_page_view_names returned to _find_master_layout
    runs,           \* assemble_from_dwgs runs started so far
    dwg_paths,      \* the DWGs (base names) the current run was given, in order
    log,            \* history: how the run dealt with each DWG so far, in order
    lfaults,        \* host calls that failed in these runs so far
    \* ---- the frame of the running function (export_deck or a fallback chain)
    pc,
    sectionName,
    allow_overwrite,
    drawing_layer,       \* NoName for None
    created_temp_layers, \* list
    out,                 \* "none" | "path"
    exc,                 \* the exception in flight, "none" when there is none
    k,                   \* next export strategy: 0 WriteFile, 1..4 -_Export variants
    wrote,
    ids,                 \* export_sublayers_dwg: ids
    exp_layers,          \* export_sublayers_dwg: layers
    \* ---- history of the current call and of earlier calls
    trace,          \* host operations of the current call, in order
    entry,          \* [layers, objLayer, files] when the call started
    cmdLayers,      \* layers the ClippingDrawings command created in this call
    cmdObjs,        \* objects the ClippingDrawings command created in this call
    relFailed,      \* layers whose _delete_layer_tree call raised in this call
    written,        \* the non-empty file at the output path was put there by the host
                    \* during a strategy of the chain that is running
    ret,            \* "none" | "skipped" | "path" | "raised": how the call ended
    prevOutcome,    \* lastOutcome[sectionName] when the call started
    lastOutcome,    \* section -> how its latest completed call ended ("none": no call yet)
    calls,          \* export_deck calls started so far
    faults          \* host faults so far

logVars == <<handlers, configured, execs, setups>>
waitVars == <<wpc, timeout_seconds, elapsed, last_size, stable_count, wret, polls>>
docVars == <<layers, objLayer, locked, selected>>
asmVars == <<pdf, before, new_ids, result>>
layoutVars == <<lpc, pageNames, detailPage, detailLocked, explicit_name, master, todo,
                created_layouts, page_view, detail_id, prior, seen, runs, lfaults,
                dwg_paths, log>>
batchVars == <<sections, planned, started>>
mainVars == <<mpc, overwrite_existing_secs, to_export, sel0, touched, batchVars>>
frameVars == <<pc, sectionName, allow_overwrite, drawing_layer, created_temp_layers,
               out, exc, k, wrote, ids, exp_layers>>
histVars == <<trace, entry, cmdLayers, cmdObjs, relFailed, written, ret, prevOutcome, lastOutcome,
              calls, faults>>
deckVars == <<script, mainVars, asmVars, layoutVars, docVars, files, frameVars, histVars>>

vars == <<waitVars, deckVars, logVars>>

\* ------------------------------------------------------- _wait_for_file
\* One pass through the try block of the polling loop, on reading r:
\* the new last_size and stable_count, and whether the pass returns True.
PollBodyCountsErrors(last, cnt, r) ==
    IF r > 0 \/ r = -2
    THEN IF r = last
         THEN [last_size |-> last, stable_count |-> cnt + 1,
               ret |-> (cnt + 1 >= StableNeeded)]
         ELSE [last_size |-> r, stable_count |-> 0, ret |-> FALSE]
    ELSE [last_size |-> last, stable_count |-> cnt, ret |-> FALSE]
PollBody(last, cnt, r) ==
    IF r > 0
    THEN IF r = last
         THEN [last_size |-> last, stable_count |-> cnt + 1,
               ret |-> (cnt + 1 >= StableNeeded)]
         ELSE [last_size |-> r, stable_count |-> 0, ret |-> FALSE]
    ELSE [last_size |-> last, stable_count |-> cnt, ret |-> FALSE]

WaitInit ==
    /\ wpc = "loop"
    /\ timeout_seconds \in 0 .. MaxTimeout
    /\ elapsed = 0
    /\ last_size = NoSize
    /\ stable_count = 0
    /\ wret = "none"
    /\ polls = <<>>

\* One iteration of the while loop: probe the file, then sleep poll_seconds.
\* dt is the time the iteration took (0: less than one tick).
WaitPoll(r, dt) ==
    /\ wpc = "loop"
    /\ elapsed < timeout_seconds
    /\ Len(polls) < MaxPolls
    /\ LET b == PollBody(last_size, stable_count, r) IN
        /\ last_size' = b.last_size
        /\ stable_count' = b.stable_count
        /\ polls' = Append(polls, r)
        /\ IF b.ret
           THEN /\ wpc' = "done"
                /\ wret' = "true"
                /\ elapsed' = elapsed
           ELSE /\ wpc' = "loop"
                /\ wret' = wret
                /\ elapsed' = elapsed + dt
    /\ UNCHANGED <<timeout_seconds, deckVars, logVars>>

\* The loop condition fails: "Timed out waiting for file", return False.
WaitTimeout ==
    /\ wpc = "loop"
    /\ elapsed >= timeout_seconds
    /\ wpc' = "done"
    /\ wret' = "false"
    /\ UNCHANGED <<timeout_seconds, elapsed, last_size, stable_count, polls, deckVars,
                   logVars>>

WaitNext ==
    \/ \E r \in Readings, dt \in 0 .. 1 : WaitPoll(r, dt)
    \/ WaitTimeout

\* ------------------------------------------------------------- helpers
IsLayer(ln) == ln \in layers

\* The layer and its "::" descendants among the layer names L
\* ("ln == layer_name or ln.startswith(layer_name + '::')").
TreeOfPrefix(layer_name, L) ==
    {ln \in L : StartsWith(ln, layer_name)}
TreeOf(layer_name, L) ==
    {ln \in L : ln = layer_name \/ StartsWith(ln, layer_name \o Sep)}

\* rs.ObjectsByLayer over a set of layers.
ObjectsByLayers(T) == {o \in ObjIds : objLayer[o] \in T}

\* _objs_on_layer_and_children: (ids, targets).
ObjsOnLayerAndChildren(layer_name) ==
    LET targets == TreeOf(layer_name, layers) IN
    [ids |-> ObjectsByLayers(targets), targets |-> targets]

\* _unlock_layers / _lock_layers: the locked set afterwards.
UnlockLayers(names, lk) == lk \ (names \cap layers)
LockLayers(names, lk) == lk \cup (names \cap layers)

\* The document as one value.
Doc == [layers |-> layers, objLayer |-> objLayer, locked |-> locked, selected |-> selected]

\* _delete_layer_tree on document d: the document afterwards (the objects of
\* the tree deleted, then its layers, children first).
DeleteLayerTree(layer_name, d) ==
    LET T == TreeOf(layer_name, d.layers) IN
    [layers |-> d.layers \ T,
     objLayer |-> [o \in ObjIds |-> IF d.objLayer[o] \in T THEN NoName ELSE d.objLayer[o]],
     locked |-> d.locked \ T,
     selected |-> {o \in d.selected : d.objLayer[o] \notin T}]

\* The overwrite check of export_deck and of export_sublayers_dwg:
\* "(not allow_overwrite) and os.path.exists(p) and os.path.getsize(p) > 0";
\* a probe that raises (-2) is caught and the call proceeds.
ShouldSkipIgnoresOverwrite(sec, ow) == files[sec] > 0
ShouldSkipCached(sec, ow) == ~ow /\ (lastOutcome[sec] \in {"skipped", "path"} \/ files[sec] > 0)
ShouldSkipNever(sec, ow) == FALSE
ShouldSkipOnProbeError(sec, ow) == ~ow /\ (files[sec] > 0 \/ files[sec] = -2)
ShouldSkip(sec, ow) == ~ow /\ files[sec] > 0

\* Where export_deck goes when generate_drawing has returned: on to
\* export_sublayers_dwg, inside the try block.
AfterGenerateCleanup == "finally"
AfterGenerate == "export"

\* The finally block of export_deck runs on every exit of the try body.
FinallyOnSuccessOnly(e) == e = "none"
FinallyRuns(e) == TRUE

\* The steps of the finally block, in order.
FinallyStepsReversed == <<"drawing", "temp">>
FinallySteps == <<"temp", "drawing">>

\* The try/except around each temp layer's deletion in the finally block.
TempDeleteUncaught == FALSE
TempDeleteCaught == TRUE

\* "if not wrote:" and "break": the chain goes on only while nothing is confirmed.
ContinueAlways(w) == TRUE
ContinueChain(w) == ~w

\* "except Exception as e: logger.exception(...)" around export_deck in
\* main's loop.
MainCatchesNothing == FALSE
MainCatches == TRUE

\* "for cmd in export_cmds": the strategy that follows strategy kk when its
\* file was not confirmed.
NextStrategyRetry(kk) == kk
NextStrategy(kk) == kk + 1

\* The number of -_Export command variants in export_cmds.
NumExportCmds == 4
\* The number of -_Import variants in _import_dwg_capture_new_objects.
NumImportCmds == 2
\* The number of -_Print variants in _export_pdf_all_layouts.
NumPrintCmds == 2

\* _wait_for_file over the readings rs (one per poll until the timeout):
\* [ret, n]: the value returned and the number of polls made.
RECURSIVE WaitRun(_, _, _, _)
WaitRun(rs, i, last, cnt) ==
    IF i > Len(rs)
    THEN [ret |-> FALSE, n |-> Len(rs)]
    ELSE LET b == PollBody(last, cnt, rs[i]) IN
         IF b.ret THEN [ret |-> TRUE, n |-> i]
         ELSE WaitRun(rs, i + 1, b.last_size, b.stable_count)
WaitForFile(rs) == WaitRun(rs, 1, NoSize, 0)

\* What the polls of one wait read: the file as it was (a) for the first
\* `land` polls, then as the host's writer left it (b).
PollReadings(a, b, land) == [j \in 1 .. WaitPolls |-> IF j <= land THEN a ELSE b]

Ev(op, kk, res, layer) == [op |-> op, k |-> kk, res |-> res, layer |-> layer]

RECURSIVE Perms(_)
Perms(S) ==
    IF S = {} THEN {<<>>}
    ELSE UNION {{<<x>> \o p : p \in Perms(S \ {x})} : x \in S}


B2N(b) == IF b THEN 1 ELSE 0

\* ------------------------------------------------------------- export.py
\* The locals of export_deck and the record of the call, before any call.
FrameAtRest ==
    /\ sectionName' = NoName
    /\ allow_overwrite' = FALSE
    /\ drawing_layer' = NoName
    /\ created_temp_layers' = <<>>
    /\ out' = "none"
    /\ exc' = "none"
    /\ k' = 0
    /\ wrote' = FALSE
    /\ ids' = {}
    /\ exp_layers' = {}
    /\ trace' = <<>>
    /\ entry' = [layers |-> {}, objLayer |-> [o \in ObjIds |-> NoName], file0 |-> -1]
    /\ cmdLayers' = {}
    /\ cmdObjs' = {}
    /\ relFailed' = {}
    /\ written' = FALSE
    /\ ret' = "none"
    /\ prevOutcome' = "none"

\* main() is not running.
MainAtRest ==
    /\ overwrite_existing_secs = {}
    /\ to_export = <<>>
    /\ sel0 = [s \in SectionNames |-> -1]
    /\ touched = {}
    /\ planned = <<>>
    /\ started = <<>>

\* The scripts that run main() of export.py: "main" on a document with one
\* clipping plane and layers of the user, "batch" on a document with several
\* planes, some of them of one name.
MainScripts == {"main", "batch"}

\* names.sort(key=lambda s: s.lower()) over the names in SectionNames.
SortedNames(l) ==
    \A i \in 1 .. Len(l), j \in 1 .. Len(l) :
        i < j => (l[i] = l[j] \/ (l[i] = <<"A">> /\ l[j] = <<"B">>))

\* _all_section_names_with_prefix: the lists it may return, one name per
\* clipping plane of the document.
SectionLists(sc) ==
    IF sc = "batch"
    THEN {l \in UNION {[1 .. n -> SectionNames] : n \in 1 .. MaxPlanes} : SortedNames(l)}
    ELSE {<<<<"A">>>>}

\* The layer of the user's object when the script starts (NoName: there is
\* no such object).
UserLayerChoices(sc) ==
    IF sc = "export" THEN {NoName, DrawingLayerOf(<<"A">>)}
    ELSE IF sc = "main" THEN {PrefixLayer, ChildLayer}
    ELSE {NoName}

\* No layout is modelled, assemble_from_dwgs is not running.
LayoutAtRest ==
    /\ lpc = "none"
    /\ pageNames = <<>>
    /\ detailPage = [d \in DetailIds |-> 0]
    /\ detailLocked = {}
    /\ explicit_name = NoName
    /\ master = NoName
    /\ todo = <<>>
    /\ created_layouts = <<>>
    /\ page_view = 0
    /\ detail_id = 0
    /\ prior = {}
    /\ seen = <<>>
    /\ runs = 0
    /\ lfaults = 0
    /\ dwg_paths = <<>>
    /\ log = <<>>

\* The state when one of the scripts starts.
ScriptInit(scripts) ==
    /\ script \in scripts
    /\ LayoutAtRest
    /\ result = {}
    /\ mpc = IF script \in MainScripts THEN "start" ELSE "none"
    /\ sections \in SectionLists(script)
    /\ MainAtRest
    /\ pdf \in FileStates
    /\ script # "assemble" => pdf = -1
    /\ script = "assemble" => files = [s \in SectionNames |-> -1]
    /\ before = {}
    /\ new_ids = {}
    /\ \E ul \in UserLayerChoices(script) :
        \* a layer with a user object on it may exist beforehand
        /\ layers = {ModelLayer} \cup (IF ul = NoName THEN {} ELSE {ul})
                        \cup (IF ul = ChildLayer THEN {DrawingLayerOf(<<"A">>)} ELSE {})
        /\ objLayer = [o \in ObjIds |->
                         IF o = ModelObj THEN ModelLayer
                         ELSE IF o = UserObj THEN ul
                         ELSE NoName]
    /\ locked = {}
    /\ selected = {}
    /\ files \in [SectionNames -> FileStates]
    /\ \A s \in SectionNames \ Names(sections) : files[s] = -1
    /\ pc = "idle"
    /\ sectionName = NoName
    /\ allow_overwrite = FALSE
    /\ drawing_layer = NoName
    /\ created_temp_layers = <<>>
    /\ out = "none"
    /\ exc = "none"
    /\ k = 0
    /\ wrote = FALSE
    /\ ids = {}
    /\ exp_layers = {}
    /\ trace = <<>>
    /\ entry = [layers |-> {}, objLayer |-> [o \in ObjIds |-> NoName], file0 |-> -1]
    /\ cmdLayers = {}
    /\ cmdObjs = {}
    /\ relFailed = {}
    /\ written = FALSE
    /\ ret = "none"
    /\ prevOutcome = "none"
    /\ lastOutcome = [s \in SectionNames |-> "none"]
    /\ calls = 0
    /\ faults = 0

DeckInit == ScriptInit({"export", "assemble"})
MainInit == ScriptInit({"main"})
BatchInit == ScriptInit({"batch"})

\* Another actor changes an export file between two calls.
EnvFile(sec, f) ==
    /\ script = "export"
    /\ pc = "idle"
    /\ files[sec] # f
    /\ files' = [files EXCEPT ![sec] = f]
    /\ UNCHANGED <<waitVars, logVars, layoutVars, mainVars, script, asmVars, docVars, frameVars, histVars>>

\* The caller has the outcome of export_deck; the call's frame is gone.
\* In main's loop an exception is caught and logged, and the loop goes on.
CallOver ==
    /\ pc = "returned"
    /\ pc' = "idle"
    /\ mpc' = IF mpc = "loop" /\ ret = "raised" /\ ~MainCatches THEN "done" ELSE mpc
    /\ FrameAtRest
    /\ before' = {}
    /\ new_ids' = {}
    /\ result' = {}
    /\ UNCHANGED <<waitVars, logVars, layoutVars, overwrite_existing_secs, to_export, sel0, touched,
                   batchVars, script, pdf, docVars, files, lastOutcome, calls, faults>>

\* Another actor changes the export file between export_deck's existence check
\* and the one of export_sublayers_dwg.
EnvFileDuringCall(f) ==
    /\ script = "export"
    /\ pc = "export"
    /\ ~allow_overwrite
    /\ files[sectionName] # f
    /\ files' = [files EXCEPT ![sectionName] = f]
    /\ UNCHANGED <<waitVars, logVars, layoutVars, mainVars, script, asmVars, docVars, frameVars, histVars>>

\* export_deck up to the try block: the pre-export existence check.
ExportDeckCall(sec, ow) ==
    /\ pc = "idle"
    /\ calls < MaxCalls
    /\ calls' = calls + 1
    /\ sectionName' = sec
    /\ allow_overwrite' = ow
    /\ drawing_layer' = NoName
    /\ created_temp_layers' = <<>>
    /\ out' = "none"
    /\ exc' = "none"
    /\ k' = 0
    /\ wrote' = FALSE
    /\ ids' = {}
    /\ exp_layers' = {}
    /\ trace' = <<>>
    /\ entry' = [layers |-> layers, objLayer |-> objLayer, file0 |-> files[sec]]
    /\ cmdLayers' = {}
    /\ cmdObjs' = {}
    /\ relFailed' = {}
    /\ written' = FALSE
    /\ prevOutcome' = lastOutcome[sec]
    /\ IF ShouldSkip(sec, ow)
       THEN /\ pc' = "returned"
            /\ ret' = "skipped"
            /\ lastOutcome' = [lastOutcome EXCEPT ![sec] = "skipped"]
       ELSE /\ pc' = "gen"
            /\ ret' = "none"
            /\ lastOutcome' = lastOutcome
    /\ UNCHANGED <<waitVars, logVars, layoutVars, script, asmVars, docVars, files, faults>>

\* export_deck called directly, with any arguments.
ExportDeck(sec, ow) ==
    /\ script = "export"
    /\ ExportDeckCall(sec, ow)
    /\ UNCHANGED mainVars

\* generate_drawing raises before the ClippingDrawings command runs:
\* no model-space view, or no clipping plane of that name.
GenerateRaisesEarly ==
    /\ pc = "gen"
    /\ exc' = "generate"
    /\ pc' = "finally"
    /\ UNCHANGED <<waitVars, logVars, layoutVars, mainVars, script, asmVars, docVars, files, sectionName, allow_overwrite,
                   drawing_layer, created_temp_layers, out, k, wrote, ids,
                   exp_layers, histVars>>

\* Object ids not in use; the host hands out the lowest ones first.
FreeIds == {o \in FreshObjs : objLayer[o] = NoName}
FirstFree(n) == {o \in FreeIds : Cardinality({q \in FreeIds : q < o}) < n}

\* generate_drawing from the ClippingDrawings command on. The host creates the
\* layers newL (listed in the order ord) and n objects, drawn on the first
\* of these layers (on the current layer when it creates none);
\* placeErr: placing the result raises; addErr: rs.AddLayer fails;
\* moveErr: rs.ObjectLayer fails.
GenerateDrawing(newL, ord, n, placeErr, addErr, moveErr) ==
    /\ pc = "gen"
    /\ n <= Cardinality(FreeIds)
    /\ LET newO == FirstFree(n)
           home == IF ord = <<>> THEN ModelLayer ELSE ord[1]
           dl == DrawingLayerOf(sectionName)
           layers1 == layers \cup newL
           objs1 == [o \in ObjIds |-> IF o \in newO THEN home ELSE objLayer[o]]
           raises == newO = {} \/ placeErr
           layers2 == IF dl \in layers1 \/ addErr THEN layers1 ELSE layers1 \cup {dl}
           objs2 == [o \in ObjIds |->
                       IF o \in newO /\ dl \in layers2 /\ ~moveErr THEN dl ELSE objs1[o]]
           nf == B2N(placeErr) + B2N(addErr) + B2N(moveErr)
       IN
        /\ newO = {} => ~placeErr
        /\ raises => ~addErr /\ ~moveErr
        /\ faults + nf <= MaxFaults
        /\ faults' = faults + nf
        /\ trace' = Append(trace, Ev("ClippingDrawings", 0, "ran", NoName))
        /\ cmdLayers' = newL
        /\ cmdObjs' = newO
        /\ selected' = {}
        /\ locked' = locked
        /\ IF raises
           THEN /\ layers' = layers1
                /\ objLayer' = objs1
                /\ exc' = "generate"
                /\ pc' = "finally"
                /\ UNCHANGED <<drawing_layer, created_temp_layers>>
           ELSE /\ layers' = layers2
                /\ objLayer' = objs2
                /\ exc' = "none"
                /\ pc' = AfterGenerate
                /\ drawing_layer' = dl
                /\ created_temp_layers' = ord
    /\ UNCHANGED <<waitVars, logVars, layoutVars, mainVars, script, asmVars, files, sectionName, allow_overwrite,
                   out, k, wrote, ids, exp_layers, entry, relFailed, written, ret, prevOutcome,
                   lastOutcome, calls>>

\* export_sublayers_dwg up to "wrote = False": overwrite check, collecting and
\* selecting the objects, unlocking, removing the stale file (rmErr: os.remove
\* fails; selErr: rs.SelectObjects fails, which is caught and logged).
ExportEnter(rmErr, selErr) ==
    /\ pc = "export"
    /\ LET c == ObjsOnLayerAndChildren(drawing_layer)
           removes == allow_overwrite /\ files[sectionName] >= 0
       IN
       IF ShouldSkip(sectionName, allow_overwrite)
       THEN /\ ~rmErr /\ ~selErr
            /\ out' = "path"
            /\ pc' = "finally"
            /\ trace' = Append(trace, Ev("export_sublayers_dwg", 0, "skipped", NoName))
            /\ UNCHANGED <<docVars, files, exc, ids, exp_layers, faults>>
       ELSE IF c.ids = {}
       THEN /\ ~rmErr /\ ~selErr
            /\ trace' = Append(trace, Ev("export_sublayers_dwg", 0, "no_objects", NoName))
            /\ exc' = "no_objects"
            /\ pc' = "finally"
            /\ selected' = {}
            /\ UNCHANGED <<layers, objLayer, locked, files, out, ids, exp_layers, faults>>
       ELSE /\ rmErr => removes
            /\ faults + B2N(rmErr) + B2N(selErr) <= MaxFaults
            /\ faults' = faults + B2N(rmErr) + B2N(selErr)
            /\ trace' = Append(trace, Ev("export_sublayers_dwg", 0,
                                IF selErr THEN "select_failed" ELSE "entered", NoName))
            /\ ids' = c.ids
            /\ exp_layers' = c.targets
            /\ locked' = UnlockLayers(c.targets, locked)
            /\ selected' = IF selErr THEN {} ELSE c.ids
            /\ files' = IF removes /\ ~rmErr
                        THEN [files EXCEPT ![sectionName] = -1]
                        ELSE files
            /\ pc' = "strategy"
            /\ UNCHANGED <<layers, objLayer, out, exc>>
    /\ k' = 0
    /\ wrote' = FALSE
    /\ UNCHANGED <<waitVars, logVars, layoutVars, mainVars, script, asmVars, sectionName, allow_overwrite, drawing_layer,
                   created_temp_layers, entry, cmdLayers, cmdObjs,
                   relFailed, written, ret, prevOutcome, lastOutcome, calls>>

\* One export strategy and its _wait_for_file: k = 0 is doc.WriteFile, k = 1..4
\* the -_Export command variants. raises: the host call raises; b, land: the
\* host's writer leaves the file in state b before poll land + 1 (b equal to
\* the file's state: nothing is written that the polls can see).
Strategy(raises, b, land) ==
    /\ pc = "strategy"
    /\ b = files[sectionName] => land = 0
    /\ raises => b = files[sectionName]
    /\ \E w \in {WaitForFile(PollReadings(files[sectionName], b, land))} :
       LET a == files[sectionName]
           landed == land < w.n
       IN
       IF raises
       THEN /\ faults < MaxFaults
            /\ faults' = faults + 1
            /\ trace' = Append(trace, Ev("export_strategy", k, "raised", NoName))
            /\ files' = files
            /\ wrote' = wrote
            /\ written' = written
            /\ IF k = 0
               THEN \* caught: "will try command-based export"
                    /\ k' = 1
                    /\ pc' = "strategy"
                    /\ exc' = exc
               ELSE \* rs.Command is not guarded: the exception leaves the function
                    /\ k' = k
                    /\ exc' = "command"
                    /\ pc' = "finally"
       ELSE /\ trace' = Append(trace, Ev("export_strategy", k,
                                IF w.ret THEN "confirmed" ELSE "unconfirmed", NoName))
            /\ files' = [files EXCEPT ![sectionName] = IF landed THEN b ELSE a]
            /\ written' = IF landed /\ b # a THEN b > 0 ELSE written
            /\ wrote' = w.ret
            /\ exc' = exc
            /\ k' = NextStrategy(k)
            /\ pc' = IF ContinueChain(w.ret) /\ k < NumExportCmds
                     THEN "strategy" ELSE "relock"
            /\ faults' = faults
    /\ UNCHANGED <<waitVars, logVars, layoutVars, mainVars, script, asmVars, docVars, sectionName, allow_overwrite, drawing_layer,
                   created_temp_layers, out, ids, exp_layers,
                   entry, cmdLayers, cmdObjs, relFailed, ret, prevOutcome, lastOutcome, calls>>

\* "Re-lock layers regardless", unselect, then return the path or raise
\* "DWG export failed".
Relock ==
    /\ pc = "relock"
    /\ locked' = LockLayers(exp_layers, locked)
    /\ selected' = {}
    /\ trace' = Append(trace, Ev("relock", 0, "ran", NoName))
    /\ written' = FALSE
    /\ IF wrote
       THEN /\ out' = "path"
            /\ exc' = "none"
            /\ pc' = "finally"
       ELSE /\ out' = out
            /\ exc' = "export_failed"
            /\ pc' = "finally"
    /\ UNCHANGED <<waitVars, logVars, layoutVars, mainVars, script, asmVars, layers, objLayer, files, sectionName, allow_overwrite,
                   drawing_layer, created_temp_layers, k, wrote, ids,
                   exp_layers, entry, cmdLayers, cmdObjs, relFailed, ret, prevOutcome,
                   lastOutcome, calls, faults>>

\* The deletions of the finally block, in order: the layer and whether it is
\* one of created_temp_layers (guarded by try/except and rs.IsLayer) or the
\* drawing layer (cleanup_drawing, unguarded).
FinallyList(created, dl) ==
    LET temps == [i \in 1 .. Len(created) |-> [layer |-> created[i], kind |-> "temp"]]
        drawing == IF dl = NoName THEN <<>> ELSE <<[layer |-> dl, kind |-> "drawing"]>>
    IN IF FinallySteps[1] = "temp" THEN temps \o drawing ELSE drawing \o temps

\* The finally block from its i-th deletion on. F: the deletions whose
\* _delete_layer_tree call raises (rs.LayerNames fails); G: the deletions
\* in which the host's rs.DeleteObject / rs.DeleteLayer calls fail, which
\* _delete_layer_tree swallows. st = [doc, trace, relFailed, exc].
RECURSIVE RunFinally(_, _, _, _, _)
RunFinally(steps, i, F, G, st) ==
    IF i > Len(steps) THEN st
    ELSE
    LET ln == steps[i].layer
        temp == steps[i].kind = "temp"
    IN
    IF temp /\ ln \notin st.doc.layers
    THEN RunFinally(steps, i + 1, F, G, st)
    ELSE IF i \in F
    THEN LET st1 == [st EXCEPT !.trace = Append(@, Ev("delete_tree", 0, "raised", ln)),
                               !.relFailed = @ \cup {ln}]
         IN IF temp /\ TempDeleteCaught
            THEN RunFinally(steps, i + 1, F, G, st1)
            ELSE [st1 EXCEPT !.exc = "cleanup"]
    ELSE IF i \in G
    THEN RunFinally(steps, i + 1, F, G,
            [st EXCEPT !.trace = Append(@, Ev("delete_tree", 0, "swallowed", ln))])
    ELSE RunFinally(steps, i + 1, F, G,
            [st EXCEPT !.trace = Append(@, Ev("delete_tree", 0, "ran", ln)),
                       !.doc = DeleteLayerTree(ln, @)])

\* The finally block of export_deck, then its return (or the exception in
\* flight leaving it). F, G: the deletions (by position) that raise and that
\* fail silently.
Finally(F, G) ==
    /\ pc = "finally"
    /\ F \cap G = {}
    /\ faults + Cardinality(F \cup G) <= MaxFaults
    /\ \E steps \in {IF FinallyRuns(exc)
                      THEN FinallyList(created_temp_layers, drawing_layer) ELSE <<>>} :
       /\ (F \cup G) \subseteq 1 .. Len(steps)
       /\ \E st \in {RunFinally(steps, 1, F, G,
                        [doc |-> Doc, trace |-> trace, relFailed |-> {}, exc |-> exc])} :
        /\ faults' = faults + Cardinality(F \cup G)
        /\ layers' = st.doc.layers
        /\ objLayer' = st.doc.objLayer
        /\ locked' = st.doc.locked
        /\ selected' = st.doc.selected
        /\ trace' = st.trace
        /\ relFailed' = st.relFailed
        /\ written' = written
        /\ exc' = st.exc
        /\ ret' = IF st.exc = "none" THEN "path" ELSE "raised"
        /\ lastOutcome' = [lastOutcome EXCEPT ![sectionName] =
                                IF st.exc = "none" THEN "path" ELSE "raised"]
    /\ pc' = "returned"
    /\ UNCHANGED <<waitVars, logVars, layoutVars, mainVars, script, asmVars, files, sectionName, allow_overwrite, drawing_layer,
                   created_temp_layers, out, k, wrote, ids, exp_layers, entry,
                   cmdLayers, cmdObjs, prevOutcome, calls>>

\* ------------------------------------------------- assemble_layouts.py
\* Variables only export_deck uses.
deckOnly == <<sectionName, allow_overwrite, drawing_layer, created_temp_layers, out,
              wrote, ids, exp_layers, entry, cmdLayers, cmdObjs, relFailed,
              prevOutcome, lastOutcome>>

AllObjects == {o \in ObjIds : objLayer[o] # NoName}

\* _import_dwg_capture_new_objects up to the loop: the snapshot "before".
ImportDwg ==
    /\ script = "assemble"
    /\ pc = "idle"
    /\ calls < MaxCalls
    /\ calls' = calls + 1
    /\ before' = AllObjects
    /\ new_ids' = {}
    /\ k' = 0
    /\ trace' = <<>>
    /\ exc' = "none"
    /\ ret' = "none"
    /\ pc' = "import"
    /\ UNCHANGED <<waitVars, logVars, layoutVars, mainVars, script, pdf, result, docVars, files, deckOnly,
                   written, faults>>

\* One -_Import variant: the command (raises: rs.Command raises, which
\* nothing catches), the sleep, and the diff of rs.AllObjects() against
\* "before". The host adds n objects.
ImportCmd(raises, n) ==
    /\ pc = "import"
    /\ n <= Cardinality(FreeIds)
    /\ raises => n = 0 /\ faults < MaxFaults
    /\ faults' = faults + B2N(raises)
    /\ LET objs1 == [o \in ObjIds |-> IF o \in FirstFree(n) THEN ModelLayer ELSE objLayer[o]]
           after == {o \in ObjIds : objs1[o] # NoName}
           diff == after \ before
       IN
       IF raises
       THEN /\ trace' = Append(trace, Ev("import_strategy", k, "raised", NoName))
            /\ exc' = "command"
            /\ ret' = "raised"
            /\ pc' = "returned"
            /\ UNCHANGED <<objLayer, k, new_ids>>
       ELSE /\ objLayer' = objs1
            /\ trace' = Append(trace, Ev("import_strategy", k,
                                IF diff # {} THEN "confirmed" ELSE "unconfirmed", NoName))
            /\ k' = k + 1
            /\ exc' = exc
            /\ IF ContinueChain(diff # {}) /\ k + 1 < NumImportCmds
               THEN /\ pc' = "import"
                    /\ UNCHANGED <<new_ids, ret>>
               ELSE /\ pc' = "returned"
                    /\ new_ids' = diff
                    /\ ret' = IF diff # {} THEN "ids" ELSE "empty"
    /\ UNCHANGED <<waitVars, logVars, layoutVars, mainVars, script, pdf, result, before, layers, locked,
                   selected, files, deckOnly, written, calls>>

\* _export_pdf_all_layouts up to the loop: "Remove stale file"
\* (rmErr: os.remove fails; a path whose probe raises is left alone).
ExportPdfAllLayouts(rmErr) ==
    /\ script = "assemble"
    /\ pc = "idle"
    /\ calls < MaxCalls
    /\ calls' = calls + 1
    /\ rmErr => pdf >= 0 /\ faults < MaxFaults
    /\ faults' = faults + B2N(rmErr)
    /\ pdf' = IF pdf >= 0 /\ ~rmErr THEN -1 ELSE pdf
    /\ k' = 0
    /\ trace' = <<>>
    /\ exc' = "none"
    /\ ret' = "none"
    /\ pc' = "print"
    /\ written' = FALSE
    /\ UNCHANGED <<waitVars, logVars, layoutVars, mainVars, script, before, new_ids, result, docVars, files,
                   deckOnly>>

\* One -_Print variant: the command (raises: rs.Command raises, which nothing
\* catches), the guarded "_OutputFile ... _Go" command, and the check of the
\* output file, which the host left in state b (a check that raises, -2, is
\* caught and the loop goes on).
PrintCmd(raises, b) ==
    /\ pc = "print"
    /\ raises => b = pdf /\ faults < MaxFaults
    /\ faults' = faults + B2N(raises)
    /\ IF raises
       THEN /\ trace' = Append(trace, Ev("print_strategy", k, "raised", NoName))
            /\ exc' = "command"
            /\ ret' = "raised"
            /\ pc' = "returned"
            /\ UNCHANGED <<pdf, k, written>>
       ELSE /\ pdf' = b
            /\ written' = IF b # pdf THEN b > 0 ELSE written
            /\ trace' = Append(trace, Ev("print_strategy", k,
                                IF b > 0 THEN "confirmed" ELSE "unconfirmed", NoName))
            /\ k' = k + 1
            /\ exc' = exc
            /\ IF ContinueChain(b > 0) /\ k + 1 < NumPrintCmds
               THEN /\ pc' = "print"
                    /\ ret' = ret
               ELSE /\ pc' = "returned"
                    /\ ret' = IF b > 0 THEN "true" ELSE "false"
    /\ UNCHANGED <<waitVars, logVars, layoutVars, mainVars, script, before, new_ids, result, docVars, files,
                   deckOnly, calls>>

\* ------------------------------- assemble_layouts.py: _find_master_layout
\* _get_page_view_names: RhinoCommon's GetPageViews(), else rs.PageViewNames
\* where the build has it, else the empty list
\* (rcOk, legacyOk: which of the two works).
GetPageViewNames(rcOk, legacyOk) == IF rcOk \/ legacyOk THEN pageNames ELSE <<>>

\* "n.strip().lower() == 'master'".
IsMasterNameExact(n) == n = Str_master
IsMasterName(n) == LowerStr(Strip(n)) = Str_master

\* _find_master_layout(explicit_name), names being what
\* _get_page_view_names returned.
FindMasterLayout(explicit, names) ==
    IF names = <<>> THEN NoName
    ELSE IF explicit # NoName /\ \E i \in 1 .. Len(names) : names[i] = explicit
    THEN explicit
    ELSE IF \E i \in 1 .. Len(names) : IsMasterName(names[i])
    THEN names[CHOOSE i \in 1 .. Len(names) :
                    /\ IsMasterName(names[i])
                    /\ \A j \in 1 .. (i - 1) : ~IsMasterName(names[j])]
    ELSE names[1]

\* The documents and arguments _find_master_layout is tried on.
MasterInit ==
    /\ script = "master"
    /\ lpc = "start"
    /\ pageNames \in UNION {[1 .. n -> LayoutNames] : n \in 0 .. MaxPages}
    /\ explicit_name \in LayoutNames \cup {NoName}
    /\ detailPage = [d \in DetailIds |-> 0]
    /\ detailLocked = {}
    /\ master = NoName
    /\ todo = <<>>
    /\ created_layouts = <<>>
    /\ page_view = 0
    /\ detail_id = 0
    /\ prior = {}
    /\ seen = <<>>
    /\ runs = 0
    /\ lfaults = 0
    /\ dwg_paths = <<>>
    /\ log = <<>>

\* One call _find_master_layout(explicit_name).
FindMaster(rcOk, legacyOk) ==
    /\ script = "master"
    /\ lpc = "start"
    /\ seen' = GetPageViewNames(rcOk, legacyOk)
    /\ master' = FindMasterLayout(explicit_name, seen')
    /\ lpc' = "found"
    /\ UNCHANGED <<waitVars, logVars, script, mainVars, asmVars, docVars, files, frameVars, histVars,
                   pageNames, detailPage, detailLocked, explicit_name, todo, created_layouts,
                   page_view, detail_id, prior, runs, lfaults, dwg_paths, log>>

MasterNext == \E rcOk \in BOOLEAN, legacyOk \in BOOLEAN : FindMaster(rcOk, legacyOk)

\* --------------------------------- assemble_layouts.py: assemble_from_dwgs
\* The document assemble_from_dwgs is run on: no layout, or one layout
\* (left by an earlier run, or a master), with or without a detail on it.
AssembleInit ==
    /\ script = "layouts"
    /\ lpc = "idle"
    /\ pageNames \in {<<>>, <<<<"A">>>>, <<MasterLayoutName>>}
    /\ \E d0 \in {"none", "unlocked", "locked"} :
        /\ d0 # "none" => pageNames # <<>>
        /\ detailPage = [d \in DetailIds |-> IF d = 1 /\ d0 # "none" THEN 1 ELSE 0]
        /\ detailLocked = IF d0 = "locked" THEN {1} ELSE {}
    /\ explicit_name = NoName
    /\ master = NoName
    /\ todo = <<>>
    /\ created_layouts = <<>>
    /\ page_view = 0
    /\ detail_id = 0
    /\ prior = {}
    /\ seen = <<>>
    /\ runs = 0
    /\ lfaults = 0
    /\ dwg_paths = <<>>
    /\ log = <<>>

\* assemble_from_dwgs up to its loop: the DWGs found (base names, paths) and
\* the master layout.
AssembleStart(paths, ex, rcOk, legacyOk) ==
    /\ script = "layouts"
    /\ lpc \in {"idle", "done", "raised"}
    /\ runs < MaxRuns
    /\ runs' = runs + 1
    /\ paths # <<>>
    /\ legacyOk => ~rcOk
    /\ lfaults + B2N(~rcOk) <= MaxLayoutFaults
    /\ lfaults' = lfaults + B2N(~rcOk)
    /\ explicit_name' = ex
    /\ seen' = GetPageViewNames(rcOk, legacyOk)
    /\ master' = FindMasterLayout(ex, seen')
    /\ todo' = paths
    /\ dwg_paths' = paths
    /\ log' = <<>>
    /\ created_layouts' = <<>>
    /\ page_view' = 0
    /\ detail_id' = 0
    /\ prior' = {}
    /\ lpc' = "page"
    /\ UNCHANGED <<waitVars, logVars, script, mainVars, asmVars, docVars, files, frameVars, histVars,
                   pageNames, detailPage, detailLocked>>

\* One DWG dealt with: its base name and how its iteration ended.
Dealt(name, res) == [name |-> name, res |-> res]

\* The first layout named n, 0 when there is none.
FirstNamed(names, n) ==
    IF \E i \in 1 .. Len(names) : names[i] = n
    THEN CHOOSE i \in 1 .. Len(names) :
            names[i] = n /\ \A j \in 1 .. (i - 1) : names[j] # n
    ELSE 0

DetailsOn(p) == {d \in DetailIds : detailPage[d] = p}
FreeDetails == {d \in DetailIds : detailPage[d] = 0}
Rank(d, S) == Cardinality({e \in S : e < d})

\* "if getattr(v, 'ActiveViewportID', None) == dup_id or v.PageName == master":
\* the layouts the rename loop after a duplication tries.
RenameCandidates(names, dup, m) == {i \in 1 .. Len(names) : i = dup \/ names[i] = m}

\* The loop to "Continue with the next DWG": the next position.
AfterPath == IF Tail(todo) = <<>> THEN "done" ELSE "page"

\* "Build page": the master is duplicated and the duplicate renamed to the
\* DWG's base name, or _activate_layout_or_create reuses the layout of that
\* name or creates one.
\* dupOk: rs.DuplicateLayout gives an id; dn: the name the host gives the
\* duplicate; setErrs: the layouts whose PageName setter raises; renErr:
\* rs.RenameLayout raises; mk: how creating a layout ends ("rc": AddPageView
\* works, "rs": only rs.AddLayout works, "fail": neither).
PreparePage(dupOk, dn, setErrs, renErr, mk) ==
    /\ script = "layouts"
    /\ lpc = "page"
    /\ todo # <<>>
    /\ LET name_base == Head(todo)
           n == Len(pageNames)
           src == FirstNamed(pageNames, master)
       IN
       IF master # NoName /\ dupOk /\ src # 0
       THEN \* the duplicate is layout n + 1 and holds copies of the master's details
            LET dup == n + 1
                names1 == Append(pageNames, dn)
                S == DetailsOn(src)
                copyOf(f) == CHOOSE d \in S : Rank(d, S) = Rank(f, FreeDetails)
                copies == {f \in FreeDetails : Rank(f, FreeDetails) < Cardinality(S)}
                cand == RenameCandidates(names1, dup, master) \ setErrs
                first == IF cand = {} THEN 0
                         ELSE CHOOSE i \in cand : \A j \in cand : i <= j
                names2 == [i \in 1 .. (n + 1) |-> IF i = first THEN name_base ELSE names1[i]]
                names3 == IF renErr THEN names2 ELSE [names2 EXCEPT ![dup] = name_base]
            IN
            /\ n < MaxPages
            /\ Cardinality(FreeDetails) >= Cardinality(S)
            /\ dn \in {master, CopyName}
            /\ setErrs \subseteq RenameCandidates(names1, dup, master)
            /\ mk = "rc"
            /\ lfaults' = lfaults + Cardinality(setErrs) + B2N(renErr)
            /\ pageNames' = names3
            /\ detailPage' = [d \in DetailIds |-> IF d \in copies THEN dup ELSE detailPage[d]]
            /\ detailLocked' = detailLocked \cup {f \in copies : copyOf(f) \in detailLocked}
            /\ page_view' = dup
            /\ lpc' = "detail"
            /\ log' = log
       ELSE \* _activate_layout_or_create(name_base)
            /\ dn = CopyName /\ setErrs = {} /\ ~renErr
            /\ master # NoName => ~dupOk
            /\ IF FirstNamed(pageNames, name_base) # 0
               THEN /\ mk = "rc"
                    /\ lfaults' = lfaults + B2N(master # NoName /\ src # 0)
                    /\ page_view' = FirstNamed(pageNames, name_base)
                    /\ lpc' = "detail"
                    /\ UNCHANGED <<pageNames, log>>
               ELSE IF mk = "fail"
               THEN \* "Failed to create layout": nothing catches it
                    /\ lfaults' = lfaults + 1 + B2N(master # NoName /\ src # 0)
                    /\ page_view' = 0
                    /\ lpc' = "raised"
                    /\ log' = Append(log, Dealt(name_base, "no_layout"))
                    /\ UNCHANGED pageNames
               ELSE /\ n < MaxPages
                    /\ lfaults' = lfaults + B2N(mk = "rs") + B2N(master # NoName /\ src # 0)
                    /\ pageNames' = Append(pageNames, name_base)
                    /\ page_view' = n + 1
                    /\ lpc' = "detail"
                    /\ log' = log
            /\ UNCHANGED <<detailPage, detailLocked>>
    /\ lfaults' <= MaxLayoutFaults
    /\ detail_id' = 0
    /\ prior' = {}
    /\ UNCHANGED <<waitVars, logVars, script, mainVars, asmVars, docVars, files, frameVars, histVars,
                   explicit_name, master, todo, created_layouts, seen, runs, dwg_paths>>

\* What "Delete existing details" removes of the details P on the page:
\* nothing when rs.ObjectsByType or rs.DeleteObjects raises (cleanErr), and
\* not the details whose inspection raises (skip).
DeletedDetails(P, cleanErr, skip) == IF cleanErr THEN {} ELSE P \ skip

\* _add_or_replace_single_detail(page_view). addRes: which call adds the
\* detail ("rs": rs.AddDetail, "rc": RhinoCommon's AddDetail, "none":
\* neither). The host creates a detail unlocked, so that
\* rs.DetailLock(detail_id, False) changes nothing, raising or not.
SingleDetail(cleanErr, skip, addRes) ==
    /\ script = "layouts"
    /\ lpc = "detail"
    /\ LET P == DetailsOn(page_view)
           gone == DeletedDetails(P, cleanErr, skip)
           free == (FreeDetails \cup gone) \ P
           new == CHOOSE d \in free : \A e \in free : d <= e
       IN
       /\ skip \subseteq P
       /\ cleanErr => skip = {}
       /\ lfaults' = lfaults + B2N(cleanErr) + Cardinality(skip) + B2N(addRes # "rs")
       /\ lfaults' <= MaxLayoutFaults
       /\ IF addRes = "none"
          THEN /\ detailPage' = [d \in DetailIds |-> IF d \in gone THEN 0 ELSE detailPage[d]]
               /\ detailLocked' = detailLocked \ gone
               /\ detail_id' = 0
               /\ page_view' = 0
               /\ prior' = {}
               /\ todo' = Tail(todo)
               /\ lpc' = AfterPath
               /\ log' = Append(log, Dealt(Head(todo), "no_detail"))
          ELSE /\ free # {}
               /\ detailPage' = [d \in DetailIds |->
                                    IF d = new THEN page_view
                                    ELSE IF d \in gone THEN 0 ELSE detailPage[d]]
               /\ detailLocked' = detailLocked \ (gone \cup {new})
               /\ detail_id' = new
               /\ page_view' = page_view
               /\ prior' = P
               /\ todo' = todo
               /\ lpc' = "import"
               /\ log' = log
    /\ UNCHANGED <<waitVars, logVars, script, mainVars, asmVars, docVars, files, frameVars, histVars,
                   pageNames, explicit_name, master, created_layouts, seen, runs, dwg_paths>>

\* The rest of the loop body: the import, moving the geometry to the page
\* (which deletes the detail unless that fails: keeps), locking the detail
\* (lockOk), the final rename (renOk) and created_layouts.append. The
\* locals of the iteration are dropped.
\* imp: _import_dwg_capture_new_objects returns ids, returns nothing, or one
\* of its commands raises.
ImportAndFinish(imp, keeps, lockOk, renOk) ==
    /\ script = "layouts"
    /\ lpc = "import"
    /\ lfaults' = lfaults + B2N(imp = "raised") + B2N(imp = "ids" /\ ~renOk)
                        + B2N(keeps /\ ~lockOk)
    /\ lfaults' <= MaxLayoutFaults
    /\ IF imp = "raised"
       THEN /\ ~keeps /\ lockOk /\ renOk
            /\ lpc' = "raised"
            /\ UNCHANGED <<pageNames, detailPage, detailLocked, todo, created_layouts>>
       ELSE IF imp = "empty"
       THEN /\ ~keeps /\ lockOk /\ renOk
            /\ todo' = Tail(todo)
            /\ lpc' = AfterPath
            /\ UNCHANGED <<pageNames, detailPage, detailLocked, created_layouts>>
       ELSE /\ ~keeps => lockOk
            /\ detailPage' = IF keeps THEN detailPage
                              ELSE [detailPage EXCEPT ![detail_id] = 0]
            /\ detailLocked' = IF keeps /\ lockOk THEN detailLocked \cup {detail_id}
                                ELSE detailLocked \ {detail_id}
            /\ pageNames' = IF renOk THEN [pageNames EXCEPT ![page_view] = Head(todo)]
                             ELSE pageNames
            /\ created_layouts' = Append(created_layouts, Head(todo))
            /\ todo' = Tail(todo)
            /\ lpc' = AfterPath
    /\ log' = Append(log, Dealt(Head(todo),
                        IF imp = "raised" THEN "import_raised"
                        ELSE IF imp = "empty" THEN "empty_import" ELSE "prepared"))
    /\ page_view' = 0
    /\ detail_id' = 0
    /\ prior' = {}
    /\ UNCHANGED <<waitVars, logVars, script, mainVars, asmVars, docVars, files, frameVars, histVars,
                   explicit_name, master, seen, runs, dwg_paths>>

AssembleNext ==
    \/ \E paths \in UNION {Perms(T) : T \in SUBSET BaseNames}, ex \in {NoName},
          rcOk \in BOOLEAN, legacyOk \in BOOLEAN :
            AssembleStart(paths, ex, rcOk, legacyOk)
    \/ lpc = "page" /\
       \E dupOk \in BOOLEAN, dn \in {master, CopyName}, setErrs \in SUBSET (1 .. (MaxPages + 1)),
          renErr \in BOOLEAN, mk \in {"rc", "rs", "fail"} :
            PreparePage(dupOk, dn, setErrs, renErr, mk)
    \/ lpc = "detail" /\
       \E cleanErr \in BOOLEAN, skip \in SUBSET DetailIds, addRes \in {"rs", "rc", "none"} :
            SingleDetail(cleanErr, skip, addRes)
    \/ lpc = "import" /\
       \E imp \in {"ids", "empty", "raised"}, keeps \in BOOLEAN, lockOk \in BOOLEAN,
          renOk \in BOOLEAN :
            ImportAndFinish(imp, keeps, lockOk, renOk)

\* The key under which assemble_from_dwgs returns its PDF output.
ResultKeyAlwaysPdf(pdf_ok) == "pdf"
ResultKey(pdf_ok) == IF pdf_ok THEN "pdf" ELSE "pdfs"

\* The end of assemble_from_dwgs once _export_pdf_all_layouts has returned
\* pdf_ok: the dict, and for "pdfs" the per-layout export before it
\* (plErr: _export_pdf_per_layout raises at GetPageViews(), which nothing
\* catches, and no dict is returned).
AssembleReturn(plErr) ==
    /\ script = "assemble"
    /\ pc = "returned"
    /\ ret \in {"true", "false"}
    /\ trace # <<>> /\ trace[Len(trace)].op = "print_strategy"
    /\ LET key == ResultKey(ret = "true") IN
       /\ plErr => key = "pdfs" /\ faults < MaxFaults
       /\ faults' = faults + B2N(plErr)
       /\ trace' = IF key = "pdfs"
                   THEN Append(trace, Ev("per_layout", 0,
                                         IF plErr THEN "raised" ELSE "ran", NoName))
                   ELSE trace
       /\ result' = IF plErr THEN {} ELSE {"layouts", key}
       /\ ret' = IF plErr THEN "raised" ELSE "dict"
       /\ exc' = IF plErr THEN "per_layout" ELSE exc
    /\ UNCHANGED <<waitVars, logVars, layoutVars, mainVars, script, pdf, before, new_ids, docVars, files,
                   deckOnly, written, pc, k, calls>>

\* ------------------------------------------------------ export.py: main
\* "exists" in main's step 4: a non-empty file; when os.path.getsize raises,
\* os.path.exists alone decides (ex).
FileExists(sec, ex) == IF files[sec] = -2 THEN ex ELSE files[sec] > 0

\* "if (not exists) or (sec in overwrite_existing_secs): to_export.append(sec)".
InExportListAll(sec, ex) == TRUE
InExportList(sec, ex) == ~FileExists(sec, ex) \/ sec \in overwrite_existing_secs

\* "section_to_outpath[sec] = ..." for sec in sections: the keys of the dict,
\* one per name however many planes bear it.
SectionToOutpathPerPlane(secs) == secs
RECURSIVE SectionToOutpath(_)
SectionToOutpath(secs) ==
    IF secs = <<>> THEN <<>>
    ELSE LET r == SectionToOutpath(SubSeq(secs, 1, Len(secs) - 1)) IN
         IF secs[Len(secs)] \in Names(r) THEN r ELSE Append(r, secs[Len(secs)])

\* The orders in which a dict may hand out the keys q.
PermsOfSeq(q) == {[i \in 1 .. Len(q) |-> q[p[i]]] : p \in Perms(1 .. Len(q))}

\* main returns before the overwrite selection: no model view, a prompt
\* cancelled, no section matched, the list declined, no export folder.
MainAbort ==
    /\ script \in MainScripts
    /\ mpc = "start"
    /\ mpc' = "done"
    /\ UNCHANGED <<waitVars, logVars, layoutVars, overwrite_existing_secs, to_export, sel0, touched,
                   batchVars, script, asmVars, docVars, files, frameVars, histVars>>

\* _select_existing_to_overwrite: "existing" is computed, then the user picks
\* sel among the existing files. A probe that raises is not caught there and
\* ends main.
MainSelect(sel) ==
    /\ script \in MainScripts
    /\ mpc = "start"
    /\ LET keys == Names(SectionToOutpath(sections))
           existing == {sec \in keys : files[sec] > 0}
       IN
       IF \E sec \in keys : files[sec] = -2
       THEN /\ sel = {}
            /\ mpc' = "done"
            /\ UNCHANGED <<overwrite_existing_secs, sel0, touched>>
       ELSE /\ sel \subseteq existing
            /\ overwrite_existing_secs' = sel
            /\ sel0' = files
            /\ touched' = {}
            /\ mpc' = "plan"
    /\ UNCHANGED <<waitVars, logVars, layoutVars, to_export, batchVars, script, asmVars, docVars, files,
                   frameVars, histVars>>

\* Another actor changes one of the files the selection dialog lists, while
\* the dialog is open or between two exports of the run.
EnvFileMain(sec, f) ==
    /\ script = "main"
    /\ mpc \in {"plan", "loop"}
    /\ pc = "idle"
    /\ sel0[sec] > 0
    /\ files[sec] # f
    /\ files' = [files EXCEPT ![sec] = f]
    /\ touched' = touched \cup {sec}
    /\ UNCHANGED <<waitVars, logVars, layoutVars, mpc, overwrite_existing_secs, to_export, sel0,
                   batchVars, script, asmVars, docVars, frameVars, histVars>>

\* "Determine final set of sections to export", in the order ord of the dict.
MainPlan(ord, ex) ==
    /\ script \in MainScripts
    /\ mpc = "plan"
    /\ LET keys == SectionToOutpath(sections)
           Listed(sec) == InExportList(sec, ex)
       IN
       /\ ord \in PermsOfSeq(SelectSeq(keys, Listed))
       /\ (\A sec \in Names(keys) : files[sec] # -2) => ex
    /\ to_export' = ord
    /\ planned' = ord
    /\ mpc' = IF ord = <<>> THEN "done" ELSE "loop"
    /\ UNCHANGED <<waitVars, logVars, layoutVars, overwrite_existing_secs, sel0, touched, sections, started,
                   script, asmVars, docVars, files, frameVars, histVars>>

\* "for sec in to_export": export_deck(sec, allow_overwrite = sec in
\* overwrite_existing_secs); what it raises is caught and logged.
MainExportDeck ==
    /\ script \in MainScripts
    /\ mpc = "loop"
    /\ to_export # <<>>
    /\ ExportDeckCall(Head(to_export), Head(to_export) \in overwrite_existing_secs)
    /\ to_export' = Tail(to_export)
    /\ started' = Append(started, Head(to_export))
    /\ UNCHANGED <<mpc, overwrite_existing_secs, sel0, touched, sections, planned>>

\* The loop is through: main returns.
MainDone ==
    /\ script \in MainScripts
    /\ mpc = "loop"
    /\ pc = "idle"
    /\ to_export = <<>>
    /\ mpc' = "done"
    /\ UNCHANGED <<waitVars, logVars, layoutVars, overwrite_existing_secs, to_export, sel0, touched,
                   batchVars, script, asmVars, docVars, files, frameVars, histVars>>

\* The steps of one export_deck call after its existence check and up to
\* the caller having the outcome, whoever the caller is.
CallNext ==
    \/ CallOver
    \/ GenerateRaisesEarly
    \/ pc = "gen" /\
       \E newL \in SUBSET (TempPool \ layers) :
       \E ord \in Perms(newL) :
       \E n \in 0 .. MaxObjs :
       \E placeErr \in BOOLEAN, addErr \in BOOLEAN, moveErr \in BOOLEAN :
            GenerateDrawing(newL, ord, n, placeErr, addErr, moveErr)
    \/ pc = "strategy" /\
       \E raises \in BOOLEAN, b \in FileStates, land \in 0 .. (WaitPolls - 1) :
            Strategy(raises, b, land)
    \/ Relock
    \/ pc = "finally" /\
       \E F \in SUBSET (1 .. (Cardinality(TempPool) + 1)) :
       \E G \in SUBSET (1 .. (Cardinality(TempPool) + 1)) : Finally(F, G)

\* export_deck called directly, and the chains of assemble_layouts.py
\* (rs.SelectObjects does not fail in these runs).
DeckNext ==
    \/ pc = "idle" /\ \E sec \in Sections, f \in FileStates : EnvFile(sec, f)
    \/ pc = "export" /\ \E f \in FileStates : EnvFileDuringCall(f)
    \/ pc = "idle" /\ \E sec \in Sections, ow \in BOOLEAN : ExportDeck(sec, ow)
    \/ pc = "export" /\ \E rmErr \in BOOLEAN : ExportEnter(rmErr, FALSE)
    \/ CallNext
    \/ ImportDwg
    \/ pc = "import" /\ \E raises \in BOOLEAN, n \in 0 .. MaxObjs : ImportCmd(raises, n)
    \/ pc = "idle" /\ \E rmErr \in BOOLEAN : ExportPdfAllLayouts(rmErr)
    \/ pc = "print" /\ \E raises \in BOOLEAN, b \in FileStates : PrintCmd(raises, b)
    \/ pc = "returned" /\ \E plErr \in BOOLEAN : AssembleReturn(plErr)

\* The lists of section names main's loop may be given.
SectionSeqs == UNION {[1 .. n -> SectionNames] : n \in 0 .. MaxPlanes}

\* A run of export.py's main().
MainNext ==
    \/ MainAbort
    \/ mpc = "start" /\ \E sel \in SUBSET SectionNames : MainSelect(sel)
    \/ mpc \in {"plan", "loop"} /\ \E sec \in Sections, f \in FileStates : EnvFileMain(sec, f)
    \/ mpc = "plan" /\ \E ord \in SectionSeqs, ex \in BOOLEAN : MainPlan(ord, ex)
    \/ MainExportDeck
    \/ pc = "export" /\ \E rmErr \in BOOLEAN, selErr \in BOOLEAN : ExportEnter(rmErr, selErr)
    \/ CallNext
    \/ MainDone

\* A run of main() on a document with several clipping planes. The host
\* is taken through every way an export_deck call can end (skip, path, and
\* an exception out of generate_drawing, of export_sublayers_dwg and of the
\* clean-up), with at most one temp layer and one object per drawing and a
\* writer that is done before the first poll.
BatchNext ==
    \/ MainAbort
    \/ mpc = "start" /\ \E sel \in SUBSET SectionNames : MainSelect(sel)
    \/ mpc = "plan" /\ \E ord \in SectionSeqs, ex \in BOOLEAN : MainPlan(ord, ex)
    \/ MainExportDeck
    \/ pc = "export" /\ ExportEnter(FALSE, FALSE)
    \/ CallOver
    \/ GenerateRaisesEarly
    \/ pc = "gen" /\
       \E newL \in {{}, {<<"T">>} \ layers} :
       \E ord \in Perms(newL) :
       \E n \in 0 .. 1 :
       \E placeErr \in BOOLEAN :
            GenerateDrawing(newL, ord, n, placeErr, FALSE, FALSE)
    \/ pc = "strategy" /\
       \E raises \in BOOLEAN, b \in {-1, 1} : Strategy(raises, b, 0)
    \/ Relock
    \/ pc = "finally" /\
       \E F \in SUBSET (1 .. (Cardinality(TempPool) + 1)) : Finally(F, {})
    \/ MainDone

\* The document, the files and the export frame while neither export.py nor
\* a fallback chain is exercised.
DeckAtRest ==
    /\ layers = {} /\ objLayer = [o \in ObjIds |-> NoName] /\ locked = {} /\ selected = {}
    /\ files = [s \in SectionNames |-> -1]
    /\ mpc = "none" /\ MainAtRest /\ sections = <<>>
    /\ pdf = -1 /\ before = {} /\ new_ids = {} /\ result = {}
    /\ pc = "idle" /\ sectionName = NoName /\ allow_overwrite = FALSE
    /\ drawing_layer = NoName /\ created_temp_layers = <<>>
    /\ out = "none" /\ exc = "none" /\ k = 0 /\ wrote = FALSE /\ ids = {}
    /\ exp_layers = {} /\ trace = <<>>
    /\ entry = [layers |-> {}, objLayer |-> [o \in ObjIds |-> NoName], file0 |-> -1]
    /\ cmdLayers = {} /\ cmdObjs = {} /\ relFailed = {} /\ written = FALSE /\ ret = "none"
    /\ prevOutcome = "none" /\ lastOutcome = [s \in SectionNames |-> "none"]
    /\ calls = 0 /\ faults = 0

\* Only _wait_for_file is exercised.
WaitIdle == script = "wait" /\ DeckAtRest /\ LayoutAtRest

\* The variables of _wait_for_file while the scripts are exercised.
DeckIdle ==
    /\ wpc = "done" /\ timeout_seconds = 0 /\ elapsed = 0 /\ last_size = NoSize
    /\ stable_count = 0 /\ wret = "none" /\ polls = <<>>

\* ------------------------------------------------------- _setup_logging
\* export.py (logger "clipping_export") and assemble_layouts.py (logger
\* "assemble_layouts"): the two _setup_logging functions are alike.
Modules == {"export", "assemble_layouts"}

\* _setup_logging is not modelled.
LoggingAtRest ==
    /\ handlers = [m \in Modules |-> <<>>]
    /\ configured = [m \in Modules |-> FALSE]
    /\ execs = [m \in Modules |-> 0]
    /\ setups = 0

\* "if getattr(_setup_logging, '_configured', False): return".
AlreadyConfigured(m) == configured[m]

\* The body of _setup_logging after the guard: logger.addHandler(fh) unless
\* logging.FileHandler raises (fhOk), then logger.addHandler(ch).
AddHandlers(h, fhOk) == h \o (IF fhOk THEN <<"file">> ELSE <<>>) \o <<"console">>

\* The module's code is executed (the script is run, or run again in the
\* same session): logging.getLogger(name) gives the session's logger of that
\* name, "def _setup_logging" binds a new function object, which has no
\* _configured attribute, and the call at the end of the prologue runs it.
ExecuteModule(m, fhOk) ==
    /\ script = "logging"
    /\ execs[m] < MaxExecs
    /\ execs' = [execs EXCEPT ![m] = execs[m] + 1]
    /\ handlers' = [handlers EXCEPT ![m] = AddHandlers(handlers[m], fhOk)]
    /\ configured' = [configured EXCEPT ![m] = TRUE]
    /\ UNCHANGED <<setups, waitVars, deckVars>>

\* One more call _setup_logging() of the function the module defined last.
SetupLogging(m, fhOk) ==
    /\ script = "logging"
    /\ execs[m] > 0
    /\ setups < MaxSetups
    /\ setups' = setups + 1
    /\ IF AlreadyConfigured(m)
       THEN /\ fhOk
            /\ UNCHANGED <<handlers, configured>>
       ELSE /\ handlers' = [handlers EXCEPT ![m] = AddHandlers(handlers[m], fhOk)]
            /\ configured' = [configured EXCEPT ![m] = TRUE]
    /\ UNCHANGED <<execs, waitVars, deckVars>>

LoggingNext ==
    \/ \E m \in Modules, fhOk \in BOOLEAN : ExecuteModule(m, fhOk)
    \/ \E m \in Modules, fhOk \in BOOLEAN : SetupLogging(m, fhOk)

\* ------------------------------------------------------ specifications
InitWait == WaitInit /\ WaitIdle /\ LoggingAtRest
SpecWait == InitWait /\ [][WaitNext]_vars

Init == DeckInit /\ DeckIdle /\ LoggingAtRest
Next == DeckNext
Spec == Init /\ [][Next]_vars

InitMain == MainInit /\ DeckIdle /\ LoggingAtRest
SpecMain == InitMain /\ [][MainNext]_vars

InitBatch == BatchInit /\ DeckIdle /\ LoggingAtRest
SpecBatch == InitBatch /\ [][BatchNext]_vars

InitMaster == MasterInit /\ DeckAtRest /\ DeckIdle /\ LoggingAtRest
SpecMaster == InitMaster /\ [][MasterNext]_vars

InitAssemble == AssembleInit /\ DeckAtRest /\ DeckIdle /\ LoggingAtRest
SpecAssemble == InitAssemble /\ [][AssembleNext]_vars

InitLogging ==
    /\ script = "logging"
    /\ DeckAtRest /\ LayoutAtRest /\ DeckIdle /\ LoggingAtRest
SpecLogging == InitLogging /\ [][LoggingNext]_vars

\* =============================================================== claims
\* ------------------------------------------ _wait_for_file (SpecWait)
\* Every poll so far read the same positive size.
SameSizeAtEveryPoll ==
    /\ polls # <<>>
    /\ polls[1] > 0
    /\ \A i \in DOMAIN polls : polls[i] = polls[1]

\* C3: when the file has the same positive size at every poll, _wait_for_file
\* returns True upon the 2nd identical reading: after two polls it has
\* returned True, and it never goes on to a 3rd poll.
C3_ConfirmedAtSecondReading ==
    (script = "wait" /\ Len(polls) >= 2 /\ SameSizeAtEveryPoll)
        => (wret = "true" /\ Len(polls) = 2)

\* C4: _wait_for_file returns True only on consecutive identical positive
\* readings: the reading that makes it return and the equal reading it
\* counts before it are adjacent polls.
C4_StableOnlyOnAdjacentReadings ==
    (script = "wait" /\ wret = "true")
        => /\ Len(polls) >= 2
           /\ polls[Len(polls)] > 0
           /\ polls[Len(polls) - 1] = polls[Len(polls)]

\* No two adjacent polls read the same positive size.
NeverStabilises ==
    \A i \in DOMAIN polls : i > 1 => ~(polls[i] > 0 /\ polls[i] = polls[i - 1])

\* C5: for a file that never stabilises _wait_for_file returns False, and it
\* returns False only once the elapsed time has reached timeout_seconds.
C5_FalseAtTimeoutOnly ==
    (script = "wait" /\ wpc = "done")
        => /\ NeverStabilises => wret = "false"
           /\ wret = "false" => elapsed >= timeout_seconds

\* ------------------------------------------------- the scripts (Spec)
\* An export_deck call is in progress or has just ended.
InCall == script \in ({"export"} \cup MainScripts) /\ pc # "idle"

\* C1: an export_deck call with allow_overwrite=False that finds a non-empty
\* output file returns the path as a skip at once: it never enters
\* generate_drawing or export_sublayers_dwg, issues no host operation, and
\* leaves every layer, object and file as it was.
C1_SkipInvokesNothing ==
    (InCall /\ ~allow_overwrite /\ entry.file0 > 0)
        => /\ pc = "returned"
           /\ ret = "skipped"
           /\ trace = <<>>
           /\ cmdLayers = {} /\ cmdObjs = {}
           /\ layers = entry.layers
           /\ objLayer = entry.objLayer
           /\ files[sectionName] = entry.file0

C1_Witness ==
    /\ InCall /\ pc = "returned" /\ ret = "skipped"
    /\ ~allow_overwrite /\ entry.file0 > 0
    /\ DrawingLayerOf(sectionName) \in layers

\* The strategy attempts of the current chain, in order.
StrategyOps == {"export_strategy", "import_strategy", "print_strategy"}
IsStrategy(e) == e.op \in StrategyOps
Attempts == SelectSeq(trace, IsStrategy)
ChainLen(op) ==
    IF op = "export_strategy" THEN NumExportCmds + 1
    ELSE IF op = "import_strategy" THEN NumImportCmds
    ELSE NumPrintCmds

\* C2: in every fallback chain the i-th attempt is the i-th declared strategy,
\* every attempt before it left its probe unconfirmed, and an attempt whose
\* probe confirms is the last one.
C2_ChainInOrderStopsAtConfirm ==
    \A att \in {Attempts} :
    \A i \in DOMAIN att :
        /\ att[i].k = i - 1
        /\ att[i].op = att[1].op
        /\ i <= ChainLen(att[i].op)
        /\ att[i].res = "confirmed" => i = Len(att)

C2_Witness ==
    /\ script = "export" /\ pc = "returned"
    /\ Len(Attempts) = 3
    /\ Attempts[1].res = "unconfirmed"
    /\ Attempts[2].res = "unconfirmed"
    /\ Attempts[3].res = "confirmed"

\* C6: when export_deck returns or raises, every layer and every object the
\* ClippingDrawings command created in the call is gone (stated for calls in
\* which no host call failed).
C6_CommandOutputReleased ==
    (InCall /\ pc = "returned" /\ faults = 0)
        => /\ cmdLayers \cap layers = {}
           /\ \A o \in cmdObjs : objLayer[o] = NoName

\* The resources export_deck's cleanup is to release: the temp layers
\* generate_drawing reported and the DRAWING_<section> layer.
TempLayers == {created_temp_layers[i] : i \in DOMAIN created_temp_layers}
Resources == TempLayers \cup (IF drawing_layer = NoName THEN {} ELSE {drawing_layer})

\* The _delete_layer_tree calls of the current call, by position in trace.
Deletions == {i \in DOMAIN trace : trace[i].op = "delete_tree"}
DeletionsOf(ln) == {i \in Deletions : trace[i].layer = ln}
\* Layer a's tree contains the name ln.
Covers(a, ln) == ln = a \/ StartsWith(ln, a \o Sep)
\* A deletion that should have removed ln failed in the host.
HostFailedOn(ln) ==
    \E i \in Deletions : trace[i].res # "ran" /\ Covers(trace[i].layer, ln)

\* The call ended after WriteFile and all four -_Export variants left the
\* output file unconfirmed.
AllStrategiesExhausted ==
    InCall /\ pc = "returned" /\ k = NumExportCmds + 1 /\ ~wrote

\* C7: when WriteFile and all four -_Export variants leave the file
\* unconfirmed, the call raises instead of returning a path, and the cleanup
\* releases every temp layer and the DRAWING_<section> tree exactly once:
\* none is left in the document (unless the host failed that very deletion),
\* none is deleted by two calls, and a layer already removed with its
\* parent's tree is not deleted again.
C7_ExhaustedReleasesEachOnce ==
    AllStrategiesExhausted
        => /\ ret = "raised" /\ out = "none"
           /\ Resources # {}
           /\ \A ln \in Resources :
                /\ ln \in layers => HostFailedOn(ln)
                /\ Cardinality(DeletionsOf(ln)) <= 1
                /\ \A i \in Deletions :
                     (trace[i].res = "ran" /\ trace[i].layer # ln /\ Covers(trace[i].layer, ln))
                        => \A j \in DeletionsOf(ln) : j < i

C7_Witness ==
    /\ AllStrategiesExhausted
    /\ exc = "export_failed"
    /\ Len(created_temp_layers) = 2
    /\ faults = 0
    /\ Resources \cap layers = {}
    /\ Cardinality(Deletions) = 2

\* A temp layer whose _delete_layer_tree call raised in the cleanup.
RaisedTemps == {trace[i].layer : i \in {j \in Deletions : trace[j].res = "raised"}} \cap TempLayers

\* C8: a temp layer's deletion that raises does not abort the cleanup: every
\* other temp layer and the DRAWING_<section> tree are still deleted (each
\* is gone unless the host failed its own deletion too), and the
\* DRAWING_<section> tree's deletion is still carried out.
C8_FailedReleaseDoesNotAbort ==
    (InCall /\ pc = "returned" /\ RaisedTemps # {})
        => /\ \A ln \in Resources : ln \in layers => HostFailedOn(ln)
           /\ drawing_layer # NoName => DeletionsOf(drawing_layer) # {}

C8_Witness ==
    /\ InCall /\ pc = "returned"
    /\ Len(created_temp_layers) = 2
    /\ RaisedTemps = {created_temp_layers[1]}
    /\ created_temp_layers[1] \in layers
    /\ created_temp_layers[2] \notin layers
    /\ DeletionsOf(created_temp_layers[2]) # {}
    /\ drawing_layer \notin layers

C10_SkipDecidedByFileAtCallTime ==
    (InCall /\ ~allow_overwrite) => (ret = "skipped" <=> entry.file0 > 0)

\* The first call skipped; the file is gone when the second one starts, and
\* the second one exports.
C10_Witness ==
    /\ InCall /\ ~allow_overwrite
    /\ calls = 2
    /\ prevOutcome = "skipped"
    /\ entry.file0 <= 0
    /\ pc = "strategy"

\* C11: with allow_overwrite=True nothing skips: the call is never a skip,
\* generate_drawing is run, export_sublayers_dwg never returns the path
\* without a confirmed strategy, and when the drawing layer tree has objects
\* at least one export strategy is attempted.
C11_OverwriteNeverSkips ==
    (InCall /\ allow_overwrite)
        => /\ ret # "skipped"
           /\ pc \in {"finally", "returned"}
                => (exc = "generate" \/ (trace # <<>> /\ trace[1].op = "ClippingDrawings"))
           /\ out = "path" => wrote
           /\ (pc = "finally" /\ drawing_layer # NoName /\ exc # "no_objects")
                => (ids # {} /\ Attempts # <<>>)

C11_Witness ==
    /\ InCall /\ allow_overwrite
    /\ entry.file0 > 0
    /\ pc = "returned" /\ ret = "path"
    /\ Attempts # <<>>

\* C12: in export_sublayers_dwg a strategy whose action raises is a soft
\* failure: unless it is the last strategy of the chain, the next one is
\* still attempted.
C12_RaisingStrategyIsSoftFailure ==
    (InCall /\ pc \in {"finally", "returned"})
        => \A i \in DOMAIN Attempts :
              (Attempts[i].res = "raised" /\ Attempts[i].k < NumExportCmds)
                 => i < Len(Attempts)

\* Positions in trace of the events with the given op.
EventsOf(op) == {i \in DOMAIN trace : trace[i].op = op}
\* Every event of op a comes before every event of op b.
Precedes(a, b) ==
    \A j \in DOMAIN trace : trace[j].op = b => \A i \in j .. Len(trace) : trace[i].op # a

\* C14: export_deck works in the order generate_drawing, export_sublayers_dwg,
\* deletion of the temp layers, cleanup_drawing; while the export attempt is
\* running no layer has been deleted, and layers are deleted only after
\* export_sublayers_dwg was entered and has ended.
C14_StepsInOrder ==
    InCall
        => /\ Precedes("ClippingDrawings", "export_sublayers_dwg")
           /\ Precedes("export_sublayers_dwg", "export_strategy")
           /\ Precedes("export_strategy", "relock")
           /\ Precedes("ClippingDrawings", "delete_tree")
           /\ Precedes("export_sublayers_dwg", "delete_tree")
           /\ Precedes("export_strategy", "delete_tree")
           /\ Precedes("relock", "delete_tree")
           /\ \A i \in Deletions : \A j \in DeletionsOf(drawing_layer) :
                 trace[i].layer \in TempLayers => i < j
           /\ pc \in {"gen", "export", "strategy", "relock", "finally"}
                => (Deletions = {} /\ (entry.layers \cup cmdLayers) \subseteq layers)
           /\ Deletions # {}
                => (EventsOf("ClippingDrawings") # {} /\ EventsOf("export_sublayers_dwg") # {})

C14_Witness ==
    /\ InCall /\ pc = "returned" /\ ret = "path"
    /\ Cardinality(EventsOf("export_strategy")) = 2
    /\ Cardinality(Deletions) = 3
    /\ EventsOf("relock") # {}

\* C15: on every exit from export_sublayers_dwg after it unlocked the layer
\* tree, every layer of the tree is locked and no object is selected.
C15_RelockedOnEveryExit ==
    (InCall /\ pc = "finally" /\ exp_layers # {})
        => (exp_layers \subseteq locked /\ selected = {})

\* A section whose export file was non-empty when main computed "existing"
\* and which the user did not select for overwrite.
Protected(sec) ==
    /\ script = "main"
    /\ mpc \in {"plan", "loop", "done"}
    /\ sel0[sec] > 0
    /\ sec \notin overwrite_existing_secs
\* export_deck is running (or has just ended) for sec.
CallFor(sec) == pc # "idle" /\ sectionName = sec

\* C13: the run of main never deletes or rewrites the file of a protected
\* section. As long as no other actor changes the file it stays as it was,
\* and the section is not in the export list and export_deck is not called
\* for it; a call for it (its file was away when the list was made) has
\* allow_overwrite=False, so nothing is removed, and is a skip that leaves
\* the file alone when the file is non-empty again.
C13_UnselectedFileUntouched ==
    \A sec \in Sections :
        Protected(sec)
            => /\ sec \notin touched
                    => /\ files[sec] = sel0[sec]
                       /\ \A i \in DOMAIN to_export : to_export[i] # sec
                       /\ ~CallFor(sec)
               /\ CallFor(sec)
                    => /\ ~allow_overwrite
                       /\ entry.file0 > 0 => (ret = "skipped" /\ files[sec] = entry.file0)

C13_Witness ==
    \E sec \in Sections :
        /\ Protected(sec)
        /\ CallFor(sec) /\ pc = "returned" /\ ret = "skipped"
        /\ files[sec] > 0

\* The plain case of C13: nobody touched the file and main is through.
C13_LeftOut ==
    \E sec \in Sections :
        /\ Protected(sec) /\ sec \notin touched
        /\ mpc = "done" /\ calls = 0

\* The objects on the drawing layer and on its "::"-descendant sublayers.
OnDrawingTree ==
    {o \in ObjIds : objLayer[o] # NoName /\ Covers(drawing_layer, objLayer[o])}
\* rs.SelectObjects failed in this call.
SelectFailed ==
    \E i \in EventsOf("export_sublayers_dwg") : trace[i].res = "select_failed"

\* C16: at the moment an export strategy is invoked the selected objects
\* are exactly the objects of the drawing layer and its "::"-descendant
\* sublayers; no object on a layer that only shares the name prefix is
\* selected.
C16_SelectionIsDrawingTree ==
    (InCall /\ pc = "strategy")
        => /\ selected = OnDrawingTree
           /\ \A o \in selected : objLayer[o] # PrefixLayer

\* What holds of the selection in every run (C16 without its "exactly"):
\* the ids collected are the tree's objects, and the selection is these ids,
\* or nothing at all when rs.SelectObjects failed.
C16_SelectionWithinDrawingTree ==
    (InCall /\ pc = "strategy")
        => /\ ids = OnDrawingTree
           /\ selected = IF SelectFailed THEN {} ELSE OnDrawingTree
           /\ \A o \in selected : objLayer[o] # PrefixLayer

\* The prefix case of C16: the user's object on DRAWING_AB is not selected.
C16_Witness ==
    /\ InCall /\ pc = "strategy"
    /\ objLayer[UserObj] = PrefixLayer
    /\ selected # {}
    /\ UserObj \notin selected

\* The sublayer case of C16: the user's object on DRAWING_A::X is selected.
C16_SublayerSelected ==
    /\ InCall /\ pc = "strategy"
    /\ objLayer[UserObj] = ChildLayer
    /\ UserObj \in selected

\* ------------------------------ assemble_from_dwgs: the dict returned (Spec)
\* The combined all-layouts export was confirmed by a non-empty file.
CombinedConfirmed ==
    \E i \in EventsOf("print_strategy") : trace[i].res = "confirmed"
\* The per-layout export was started.
PerLayoutRan == EventsOf("per_layout") # {}

\* C19: the dict returned by assemble_from_dwgs has "layouts" and exactly one
\* of "pdf" and "pdfs"; it has "pdf" exactly when the combined export was
\* confirmed by a non-empty file at the output path, and the per-layout
\* export runs only when it was not.
C19_PdfKeyIffCombinedConfirmed ==
    script = "assemble" =>
        /\ PerLayoutRan => ~CombinedConfirmed
        /\ result # {} =>
            /\ pc = "returned" /\ ret = "dict"
            /\ "layouts" \in result
            /\ ("pdf" \in result) # ("pdfs" \in result)
            /\ ("pdf" \in result) <=> (CombinedConfirmed /\ pdf > 0)
            /\ ("pdfs" \in result) <=> PerLayoutRan

\* The dict with "pdf": the second -_Print variant was the confirmed one.
C19_Witness ==
    /\ script = "assemble" /\ ret = "dict"
    /\ "pdf" \in result
    /\ Cardinality(EventsOf("print_strategy")) = NumPrintCmds

\* The dict with "pdfs", after the per-layout export.
C19_FallbackDict ==
    /\ script = "assemble" /\ ret = "dict"
    /\ result = {"layouts", "pdfs"}
    /\ PerLayoutRan

\* -------------------------------------- _find_master_layout (SpecMaster)
\* The names of LayoutNames that read "master" once trimmed, whatever the
\* case of their letters.
SpelledMaster ==
    { <<"M", "A", "S", "T", "E", "R">>,
      <<" ", "M", "a", "s", "t", "e", "r", "\t">> }
\* explicit_name is given and names a layout of l.
ExplicitIn(l) == explicit_name # NoName /\ explicit_name \in Names(l)

\* The priority order of _find_master_layout over the list l of layouts.
MasterByPriority(l) ==
    /\ ExplicitIn(l) => master = explicit_name
    /\ (~ExplicitIn(l) /\ Names(l) \cap SpelledMaster # {})
        => master \in Names(l) \cap SpelledMaster
    /\ (~ExplicitIn(l) /\ Names(l) \cap SpelledMaster = {} /\ l # <<>>)
        => master = l[1]
    /\ master = NoName <=> l = <<>>

C17_ExactlyOneUnlockedDetail ==
    (script = "layouts" /\ lpc = "import")
        => /\ DetailsOn(page_view) = {detail_id}
           /\ detail_id \notin prior
           /\ detail_id \notin detailLocked

\* The case C17 is about: the page held a detail before the call, and the
\* call returned an id.
C17_ReplacedDetail ==
    /\ script = "layouts" /\ lpc = "import"
    /\ prior # {}
    /\ DetailsOn(page_view) = {detail_id}

\* C18: when a run of assemble_from_dwgs is over no two layouts of the
\* document bear the same DWG base name.
C18_NoTwoLayoutsOfOneName ==
    (script = "layouts" /\ lpc = "done")
        => \A n \in BaseNames :
              Cardinality({i \in 1 .. Len(pageNames) : pageNames[i] = n}) <= 1

\* A layout is reused by name: the run ends with the one layout it found.
C18_ReusedByName ==
    /\ script = "layouts" /\ lpc = "done"
    /\ master = NoName
    /\ pageNames = <<<<"A">>>>
    /\ created_layouts = <<<<"A">>>>

\* ------------------------------------------ main() of export.py (SpecBatch)
\* C21: a failure of export_deck for one section is logged and skipped:
\* export_deck is invoked for the sections of the to-export list in order,
\* whatever the outcome of the earlier ones, and main is through only when
\* it was invoked for every one of them.
C21_FailureSkippedLoopGoesOn ==
    (script \in MainScripts /\ mpc \in {"loop", "done"})
        => /\ started \o to_export = planned
           /\ mpc = "done" => started = planned

\* export_deck raised for the first section and returned the path for the
\* second one.
C21_Witness ==
    /\ script = "batch" /\ mpc = "done"
    /\ Len(planned) = 2
    /\ started = planned
    /\ lastOutcome[planned[1]] = "raised"
    /\ lastOutcome[planned[2]] = "path"

\* C22: within one run of main each section is run at most once: export_deck
\* is invoked at most once per section name, also when several clipping
\* planes bear that name; a call is only ever made for a section that has no
\* outcome yet, and a section that has its outcome (skipped, path or raised)
\* is not in the list of those still to export.
C22_EachSectionAtMostOnce ==
    script \in MainScripts
        => /\ \A i \in DOMAIN started, j \in DOMAIN started : i # j => started[i] # started[j]
           /\ pc # "idle" => (prevOutcome = "none" /\ sectionName = started[Len(started)])
           /\ \A sec \in SectionNames :
                /\ lastOutcome[sec] # "none" => sec \in Names(started)
                /\ sec \in Names(started) => sec \notin Names(to_export)

\* Two clipping planes bear one name: export_deck ran once for it.
C22_Witness ==
    /\ script = "batch" /\ mpc = "done"
    /\ Len(sections) = 2 /\ sections[1] = sections[2]
    /\ started = <<sections[1]>>
    /\ lastOutcome[sections[1]] = "path"

\* ------------------------------------ assemble_from_dwgs (SpecAssemble)
\* The base names of the DWGs the run has dealt with, in order.
LogNames == [i \in DOMAIN log |-> log[i].name]
\* The failures of one DWG that C24 names.
SoftFailures == {"no_layout", "no_detail", "empty_import"}

\* C24: a failure while processing one DWG (no layout, no detail, an import
\* without objects) only skips that DWG: the run does not end with it, every
\* later DWG is dealt with in turn, and the loop is left for the PDF export
\* with every DWG dealt with.
C24_FailedDwgOnlySkipped ==
    script = "layouts"
        => /\ lpc = "raised" => log[Len(log)].res \notin SoftFailures
           /\ lpc \in {"page", "done"} => LogNames \o todo = dwg_paths
           /\ lpc = "done" => LogNames = dwg_paths

\* The part of C24 the code keeps: a DWG without a detail or with an empty
\* import is skipped and the next one is prepared.
C24_SkippedThenPrepared ==
    /\ script = "layouts" /\ lpc = "done"
    /\ Len(log) = 2
    /\ log[1].res \in {"no_detail", "empty_import"}
    /\ log[2].res = "prepared"

\* ------------------------------------ stale output files (Spec)
\* C25: a path is returned as a strategy success only if the file at that
\* path was written during this call: when export_sublayers_dwg leaves the
\* chain with a confirmation, and when a -_Print variant of
\* _export_pdf_all_layouts is confirmed, the file that was confirmed was put
\* there by a strategy of this call.
C25_ConfirmedOnlyIfWritten ==
    /\ (script = "export" /\ pc = "relock" /\ wrote) => written
    /\ (script = "assemble" /\ pc = "returned" /\ CombinedConfirmed) => written

\* The case the code does keep: the stale file was removed and the confirmed
\* file is one a strategy wrote.
C25_RemovedThenWritten ==
    /\ script = "export" /\ pc = "relock" /\ wrote /\ written
    /\ allow_overwrite /\ entry.file0 > 0

\* ------------------------------------ the master layout (SpecAssemble)
\* The layout _find_master_layout chose when the run started: its number.
MasterPage == FirstNamed(seen, master)

\* C26: a run with a master layout never renames or alters the master: the
\* layout chosen as the master keeps its name, it is never the page a DWG is
\* assembled on, and every DWG is assembled on a page of its own that the
\* run added for it.
C26_MasterKept ==
    (script = "layouts" /\ master # NoName /\ lpc \in {"page", "detail", "import", "done"})
        => /\ pageNames[MasterPage] = master
           /\ lpc \in {"detail", "import"}
                => /\ page_view # MasterPage
                   /\ page_view = Len(pageNames)
                   /\ Len(pageNames) = Len(seen) + Len(log) + 1

\* The duplicate, not the master, was renamed (the master's PageName setter
\* raised), and the DWG is assembled on the duplicate.
C26_DuplicateRenamed ==
    /\ script = "layouts" /\ master # NoName /\ lpc = "detail"
    /\ pageNames[MasterPage] = master
    /\ page_view = Len(pageNames) /\ page_view # MasterPage
    /\ pageNames[page_view] = Head(todo)
    /\ Head(todo) # master

\* ------------------------------------ what export_deck deletes (Spec)
\* C27: export_deck deletes only layers and objects created during its own
\* call: every layer and every object the document had when the call started
\* (a DRAWING_<section> layer of the user's and the objects on it included)
\* is still there once the call has returned or raised.
C27_DeletesOnlyOwn ==
    (InCall /\ pc = "returned")
        => /\ entry.layers \subseteq layers
           /\ \A o \in ObjIds : entry.objLayer[o] # NoName => objLayer[o] # NoName

\* The case the code does keep: the drawing layer did not exist before the
\* call; the cleanup deleted it and the objects the call put on it.
C27_OwnDrawingDeleted ==
    /\ InCall /\ pc = "returned" /\ ret = "path"
    /\ drawing_layer # NoName
    /\ drawing_layer \notin entry.layers
    /\ drawing_layer \notin layers
    /\ DeletionsOf(drawing_layer) # {}
    /\ entry.layers \subseteq layers

\* ------------------------------------ a raising existence check (Spec)
\* The running call was made with allow_overwrite=False and its pre-export
\* existence check raised.
PreCheckRaised == InCall /\ ~allow_overwrite /\ entry.file0 = -2

\* C28: a pre-export existence check that raises makes export_deck neither
\* skip nor fail: the call goes on to generate_drawing, and once the drawing
\* is there with objects on it (and export_sublayers_dwg's own check finds no
\* file to preserve) the export strategies run; a call that ends without an
\* attempt ended because generate_drawing raised, because the layer tree
\* held no objects, or because export_sublayers_dwg found a file to preserve.
C28_ProbeErrorProceeds ==
    PreCheckRaised
        => /\ ret # "skipped"
           /\ pc # "idle"
           /\ pc \in {"export", "strategy", "relock"} => EventsOf("ClippingDrawings") # {}
           /\ pc = "returned"
                => IF EventsOf("export_sublayers_dwg") = {}
                   THEN exc = "generate"
                   ELSE \/ EventsOf("export_strategy") # {}
                        \/ \E i \in EventsOf("export_sublayers_dwg") :
                              trace[i].res \in {"skipped", "no_objects"}

\* The check raised, the drawing was generated and a strategy's file was
\* confirmed: the call returned the path.
C28_Witness ==
    /\ PreCheckRaised /\ pc = "returned" /\ ret = "path"
    /\ EventsOf("ClippingDrawings") # {}
    /\ \E i \in EventsOf("export_strategy") : trace[i].res = "confirmed"

\* ------------------------------------ a raising probe (SpecWait)
\* The polls of the running _wait_for_file whose probe raised, and those that
\* read a positive size.
RaisedPolls == {i \in DOMAIN polls : polls[i] = -2}
PositivePolls == {i \in DOMAIN polls : polls[i] > 0}

\* C29: an exception raised while probing the file never leaves
\* _wait_for_file and never counts as a positive reading: a poll that raised
\* returns nothing and sets neither last_size nor stable_count, True is only
\* returned by a poll that read a positive size for the StableNeeded + 1-th
\* time, and after a raising poll the loop goes on until a later poll
\* confirms or the timeout is reached.
C29_ProbeErrorNeitherRaisesNorCounts ==
    script = "wait"
        => /\ wret \in {"none", "true", "false"}
           /\ last_size \in {NoSize} \cup {polls[i] : i \in PositivePolls}
           /\ stable_count < Cardinality({i \in PositivePolls : polls[i] = last_size})
                \/ (stable_count = 0 /\ last_size = NoSize)
           /\ wret = "true" => Len(polls) \in PositivePolls
           /\ (polls # <<>> /\ Len(polls) \in RaisedPolls)
                => \/ wpc = "loop" /\ wret = "none"
                   \/ wpc = "done" /\ wret = "false" /\ elapsed >= timeout_seconds

\* A probe raised, polling went on and the file was confirmed later.
C29_Witness ==
    /\ script = "wait" /\ wret = "true"
    /\ RaisedPolls # {}
    /\ polls[1] = -2

\* ------------------------------------ the chain is bounded (SpecBatch)
\* The most strategy attempts of one export_sublayers_dwg call that C30 names.
FiveAttempts == 5
\* The attempt was followed by a _wait_for_file call, which returned.
Waited(e) == e.res \in {"confirmed", "unconfirmed"}
\* Whatever the host's writer leaves at the path, the wait the next strategy
\* makes returns after at least one and at most WaitPolls polls, WaitPolls
\* being the polls that fit into its timeout.
WaitBounded ==
    \A b \in FileStates :
        WaitForFile(PollReadings(files[sectionName], b, 0)).n \in 1 .. WaitPolls

GenerateReturned == InCall /\ pc = "export" /\ drawing_layer # NoName

\* C31: after generate_drawing returns, every object the ClippingDrawings
\* command added to the document is on the layer DRAWING_<sectionName>, and
\* the list of created layers it returns does not contain that layer.
C31_ResultOnDrawingLayer ==
    GenerateReturned
        => /\ drawing_layer = DrawingLayerOf(sectionName)
           /\ \A o \in cmdObjs : objLayer[o] = drawing_layer
           /\ drawing_layer \notin TempLayers

\* The case the code does keep: no host call failed, the command made a
\* layer and an object, and the object was moved to the drawing layer.
C31_MovedToDrawingLayer ==
    /\ GenerateReturned /\ faults = 0
    /\ cmdObjs # {} /\ cmdLayers # {}
    /\ TempLayers = cmdLayers
    /\ \A o \in cmdObjs : objLayer[o] = drawing_layer
    /\ drawing_layer \notin TempLayers

\* ------------------------------------ result['layouts'] (SpecAssemble)
\* The names of the layouts of the document.
PageNameSet == {pageNames[i] : i \in DOMAIN pageNames}
\* The DWGs of the run whose iteration reached "Prepared layout".
IsPrepared(e) == e.res = "prepared"
PreparedNames == [i \in DOMAIN SelectSeq(log, IsPrepared) |-> SelectSeq(log, IsPrepared)[i].name]

\* C32: every name in created_layouts, which assemble_from_dwgs returns as
\* result['layouts'], is the page name of a layout of the document, and a
\* DWG whose detail could not be created or whose import was empty
\* contributes no name: the names are those of the DWGs that were prepared.
C32_LayoutsNamedAndPrepared ==
    (script = "layouts" /\ lpc \in {"page", "done"})
        => /\ \A i \in DOMAIN created_layouts : created_layouts[i] \in PageNameSet
           /\ created_layouts = PreparedNames

\* One DWG was skipped and one prepared: only the latter is reported.
C32_Witness ==
    /\ script = "layouts" /\ lpc = "done"
    /\ Len(log) = 2
    /\ log[1].res \in {"no_detail", "empty_import"}
    /\ created_layouts = <<log[2].name>>
    /\ log[2].name \in PageNameSet
    /\ log[1].name \notin PageNameSet

\* ------------------------------------ _setup_logging (SpecLogging)
\* The handlers of kind kd on the module's logger.
HandlersOfKind(m, kd) == {i \in DOMAIN handlers[m] : handlers[m][i] = kd}

\* C33: however many times _setup_logging is called within one interpreter
\* session, the logger carries the handlers of a single configuration:
\* exactly one console handler and at most one file handler.
C33_SingleConfiguration ==
    script = "logging"
        => \A m \in Modules :
             execs[m] > 0
                => /\ Cardinality(HandlersOfKind(m, "console")) = 1
                   /\ Cardinality(HandlersOfKind(m, "file")) <= 1

\* The case the code does keep: further calls of the same function object
\* add nothing to the one configuration.
C33_RepeatedCallsAddNothing ==
    /\ script = "logging" /\ setups = MaxSetups
    /\ \A m \in Modules :
         /\ execs[m] = 1
         /\ handlers[m] \in {<<"file", "console">>, <<"console">>}

====
